---- MODULE Spec2Model ----
(***************************************************************************)
(* Model of the finances-ai Discord bot: the inbound message pipeline      *)
(* (DiscordBotHandlerService, DiscordMessageUseCase,                       *)
(* MessageProcessingService, AudioProcessingService, AuthService) and the  *)
(* expense use case over the generic Drizzle repository.                   *)
(*                                                                         *)
(* Strings are sequences of one-character strings.  Long texts are built   *)
(* by Text(n); fixed literals of the source are modelled by Lit(n, c): a   *)
(* text of the literal's UTF-16 length filled with a marker character.     *)
(***************************************************************************)
EXTENDS Integers, Sequences, FiniteSets, TLC

VARIABLES
    accounts,      \* rows of the accounts table (external identity links)
    users,         \* rows of the users table
    msg,           \* the inbound Discord message being handled
    pc,            \* position of the handler that is running
    authCheck,     \* AuthCheckResult of the running handler
    audioResult,   \* AudioProcessingResult of the running handler
    send,          \* frame of the running sendDirectMessage call
    log,           \* external calls issued for the current message, in order
    caught,        \* catch blocks entered for the current message, in order
    expenses,      \* rows of the expenses table
    clock,         \* the current time, as new Date() reads it
    ucResult,      \* last ExpenseUseCase call: operation, inputs, envelope
    routed,        \* the use case input handleMessage routed the message to
    result,        \* the CommandResult or MessageProcessingResult in hand
    records,       \* rows of a table with a deletedAt column
    repoResult,    \* last call of the repository of records, or of a model
    bridge,        \* the /api/auth/* request being bridged and its reply
    slash,         \* the slash command interaction being handled
    handlers,      \* the handleMessage calls in progress, by message
    delivered,     \* the messages whose reply has been delivered, in order
    boot,          \* main(): its position and the MCP manager service
    mcp            \* MCPServerManager: the singleton, its instances, the callers

pipeVars == <<msg, pc, authCheck, audioResult, send, log, caught, routed,
             result>>
authVars == <<accounts, users>>
expVars  == <<expenses, clock, ucResult>>
repoVars == <<records, repoResult>>
sysVars  == <<bridge, slash, handlers, delivered, boot, mcp>>
vars == <<accounts, users, msg, pc, authCheck, audioResult, send, log, caught,
          expenses, clock, ucResult, routed, result, records, repoResult,
          bridge, slash, handlers, delivered, boot, mcp>>

-----------------------------------------------------------------------------
(* Strings *)

Min(a, b) == IF a < b THEN a ELSE b

WhiteSpace == {" ", "\t", "\n"}

upperCase == <<"A","B","C","D","E","F","G","H","I","J","K","L","M",
               "N","O","P","Q","R","S","T","U","V","W","X","Y","Z">>
lowerCase == <<"a","b","c","d","e","f","g","h","i","j","k","l","m",
               "n","o","p","q","r","s","t","u","v","w","x","y","z">>

ToLowerChar(c) ==
    IF \E i \in DOMAIN upperCase : upperCase[i] = c
    THEN lowerCase[CHOOSE i \in DOMAIN upperCase : upperCase[i] = c]
    ELSE c

\* String.prototype.toLowerCase
toLowerCase(s) == [i \in 1..Len(s) |-> ToLowerChar(s[i])]

\* String.prototype.endsWith
endsWith(s, suffix) ==
    /\ Len(suffix) <= Len(s)
    /\ SubSeq(s, Len(s) - Len(suffix) + 1, Len(s)) = suffix

\* String.prototype.startsWith
startsWith(s, prefix) ==
    /\ Len(prefix) <= Len(s)
    /\ SubSeq(s, 1, Len(prefix)) = prefix

RECURSIVE trimStart(_)
trimStart(s) ==
    IF s # <<>> /\ Head(s) \in WhiteSpace THEN trimStart(Tail(s)) ELSE s

RECURSIVE trimEnd(_)
trimEnd(s) ==
    IF s # <<>> /\ s[Len(s)] \in WhiteSpace
    THEN trimEnd(SubSeq(s, 1, Len(s) - 1))
    ELSE s

\* String.prototype.trim
trim(s) == trimEnd(trimStart(s))

\* the first element of s.split(/\s+/), for s already trimmed
RECURSIVE firstWord(_)
firstWord(s) ==
    IF s = <<>> \/ Head(s) \in WhiteSpace THEN <<>>
    ELSE <<Head(s)>> \o firstWord(Tail(s))

RECURSIVE Flatten(_)
Flatten(ss) == IF ss = <<>> THEN <<>> ELSE Head(ss) \o Flatten(Tail(ss))

alphabet == <<"a","b","c","d","e","f","g">>

\* a text of n characters in which no two chunks of a split look alike
Text(n) == [i \in 1..n |-> alphabet[(i % Len(alphabet)) + 1]]

\* a literal of the source: its length, filled with a marker character
Lit(n, c) == [i \in 1..n |-> c]

-----------------------------------------------------------------------------
(* MessageProcessingService.sendDirectMessage *)

\* Discord's single-message limit, as sendDirectMessage writes it
MaxMessageLength == 2000

\* content.match(/[\s\S]{2000}/g): only full chunks, the remainder dropped
RECURSIVE Chunks_FullOnly(_)
Chunks_FullOnly(content) ==
    IF Len(content) < MaxMessageLength THEN <<>>
    ELSE <<SubSeq(content, 1, MaxMessageLength)>>
           \o Chunks_FullOnly(SubSeq(content, MaxMessageLength + 1, Len(content)))

\* content.match(/[\s\S]{1,2000}/g): greedy, left to right
RECURSIVE Chunks(_)
Chunks(content) ==
    IF content = <<>> THEN <<>>
    ELSE LET n == Min(MaxMessageLength, Len(content))
         IN  <<SubSeq(content, 1, n)>> \o Chunks(SubSeq(content, n + 1, Len(content)))

\* the notice that prefixes a channel fallback reply
DmFailedNotice == Lit(73, "#")

\* the strings the try block hands to message.author.send, in order
DmParts(content) ==
    IF Len(content) > MaxMessageLength THEN Chunks(content) ELSE <<content>>

\* a catch block that replies with the content and no notice
ReplyParts_Unprefixed(content) == DmParts(content)

\* the strings the catch block hands to message.reply, in order
ReplyParts(content) ==
    IF Len(content) > MaxMessageLength THEN Chunks(content)
    ELSE <<DmFailedNotice \o content>>

NoSend == [content |-> <<>>, phase |-> "idle", i |-> 0, ret |-> "", catch |-> ""]

\* the call sendDirectMessage(message, content) made from position pc, which
\* resumes at ret when it returns and at catch when it throws
CallSend(content, ret, catch) ==
    [content |-> content, phase |-> "dm", i |-> 1, ret |-> ret, catch |-> catch]

Entry(op, arg, ok) == [op |-> op, arg |-> arg, ok |-> ok]

\* one await message.author.send(...) of the try block
SendDm ==
    /\ pc = "send" /\ send.phase = "dm"
    /\ LET parts == DmParts(send.content) IN
       \E ok \in BOOLEAN :
         /\ log' = Append(log, Entry("send", parts[send.i], ok))
         /\ IF ~ok
            THEN /\ send' = [send EXCEPT !.phase = "reply", !.i = 1]
                 /\ pc' = pc
            ELSE IF send.i < Len(parts)
            THEN /\ send' = [send EXCEPT !.i = send.i + 1]
                 /\ pc' = pc
            ELSE /\ send' = [send EXCEPT !.phase = "returned"]
                 /\ pc' = send.ret
    /\ UNCHANGED <<msg, authCheck, audioResult, caught, routed, result>>
    /\ UNCHANGED <<authVars, sysVars, expVars, repoVars>>

\* one await message.reply(...) of the catch block; its failure leaves
\* sendDirectMessage as an exception
SendReply ==
    /\ pc = "send" /\ send.phase = "reply"
    /\ LET parts == ReplyParts(send.content) IN
       \E ok \in BOOLEAN :
         /\ log' = Append(log, Entry("reply", parts[send.i], ok))
         /\ IF ~ok
            THEN /\ send' = [send EXCEPT !.phase = "thrown"]
                 /\ pc' = send.catch
            ELSE IF send.i < Len(parts)
            THEN /\ send' = [send EXCEPT !.i = send.i + 1]
                 /\ pc' = pc
            ELSE /\ send' = [send EXCEPT !.phase = "returned"]
                 /\ pc' = send.ret
    /\ UNCHANGED <<msg, authCheck, audioResult, caught, routed, result>>
    /\ UNCHANGED <<authVars, sysVars, expVars, repoVars>>

-----------------------------------------------------------------------------
(* AuthService over the accounts and users tables *)

Null == [null |-> TRUE]

\* getLoginUrl with BETTER_AUTH_URL unset: http://localhost:3333/login/discord
getLoginUrl ==
    Lit(21, "B") \o <<"/","l","o","g","i","n","/","d","i","s","c","o","r","d">>

\* the prompt of the unlinked case, the login URL between its two literals
LoginPrompt == Lit(115, "L") \o getLoginUrl \o Lit(58, "M")
AuthCheckFailedMessage == Lit(50, "K")
AuthenticatedPrefix == Lit(19, "V")
DefaultUserName == <<"U","s","u","a","r","i","o">>

\* AuthRepository.findUserByDiscordId: the users row joined to the accounts
\* row of the Discord identity under provider "discord", or null
findUserByDiscordId(discordId) ==
    LET rows == { u \in users :
                    \E a \in accounts : /\ u.id = a.userId
                                        /\ a.accountId = discordId
                                        /\ a.providerId = "discord" }
    IN  IF rows = {} THEN Null ELSE CHOOSE u \in rows : TRUE

\* AuthRepository.getUserSession: the id and name of the user the Discord
\* identity is linked to, or null
getUserSession(discordId) ==
    LET user == findUserByDiscordId(discordId) IN
    IF user = Null THEN Null
    ELSE [userId |-> user.id, userName |-> user.name]

\* a checkAuthAndGetMessage whose catch block answers with the login prompt
checkAuthAndGetMessage_PromptOnFailure(discordId, storage) ==
    LET session == getUserSession(discordId) IN
    IF storage = "throw" \/ session = Null
    THEN [isAuthenticated |-> FALSE, message |-> LoginPrompt]
    ELSE [isAuthenticated |-> TRUE,
          userId          |-> session.userId,
          userName        |-> session.userName,
          message         |-> AuthenticatedPrefix \o session.userName]

\* AuthService.checkAuthAndGetMessage; storage is "ok" or "throw", the
\* outcome of the repository's query
checkAuthAndGetMessage(discordId, storage) ==
    IF storage = "throw"
    THEN [isAuthenticated |-> FALSE, message |-> AuthCheckFailedMessage]
    ELSE LET session == getUserSession(discordId) IN
         IF session = Null
         THEN [isAuthenticated |-> FALSE, message |-> LoginPrompt]
         ELSE LET name == IF session.userName # <<>> THEN session.userName
                          ELSE DefaultUserName
              IN  [isAuthenticated |-> TRUE,
                   userId          |-> session.userId,
                   userName        |-> name,
                   message         |-> AuthenticatedPrefix \o name]

StorageOutcomes == {"ok", "throw"}

-----------------------------------------------------------------------------
(* AudioProcessingService *)

audioExtensions ==
    << <<".","m","p","3">>, <<".","w","a","v">>, <<".","o","g","g">>,
       <<".","m","4","a">>, <<".","a","a","c">>, <<".","o","p","u","s">>,
       <<".","w","e","b","m">> >>

\* an isAudioFile that compares the name as written
isAudioFile_CaseSensitive(filename) ==
    \E k \in DOMAIN audioExtensions : endsWith(filename, audioExtensions[k])

isAudioFile(filename) ==
    \E k \in DOMAIN audioExtensions :
        endsWith(toLowerCase(filename), audioExtensions[k])

AudioNotUnderstood == Lit(75, "E")
AudioFailed == Lit(43, "F")
AudioDefaultError == Lit(50, "G")

\* a processAudio with one error text for every failure
processAudio_OneError(outcome) ==
    IF outcome.kind = "throw" \/ outcome.kind = "absent" \/ trim(outcome.text) = <<>>
    THEN [transcription |-> <<>>, isSuccess |-> FALSE, error |-> AudioNotUnderstood]
    ELSE [transcription |-> outcome.text, isSuccess |-> TRUE]

\* processAudio on the outcome of transcribe(): it throws, or answers with
\* a text, or answers without one
processAudio(outcome) ==
    IF outcome.kind = "throw"
    THEN [transcription |-> <<>>, isSuccess |-> FALSE, error |-> AudioFailed]
    ELSE IF outcome.kind = "absent" \/ trim(outcome.text) = <<>>
    THEN [transcription |-> <<>>, isSuccess |-> FALSE, error |-> AudioNotUnderstood]
    ELSE [transcription |-> outcome.text, isSuccess |-> TRUE]

-----------------------------------------------------------------------------
(* MessageProcessingService.processTextMessage / processAudioTranscription *)

AgentFallbackReply == Lit(49, "D")
ProcessingFailedReply == Lit(64, "P")

\* the system message handed to the agent
SystemContext(userId, userName) == [userId |-> userId, userName |-> userName]

\* the exchange handed to agent.generateVNext
AgentCall(content, userId, userName) ==
    [system |-> SystemContext(userId, userName), user |-> content]

\* the MessageProcessingResult for the outcome of agent.generateVNext
processResult(outcome) ==
    IF outcome.kind = "throw"
    THEN [response |-> ProcessingFailedReply, isSuccess |-> FALSE]
    ELSE [response  |-> IF outcome.text # <<>> THEN outcome.text
                        ELSE AgentFallbackReply,
          isSuccess |-> TRUE]

SaidPrefix == Lit(20, "S")
SaidSuffix == Lit(3, "Q")

\* a reply of the audio branch without the transcription
fullReply_Bare(transcription, response) == response

\* the reply of the audio branch: the transcription, then the response
fullReply(transcription, response) ==
    SaidPrefix \o transcription \o SaidSuffix \o response

-----------------------------------------------------------------------------
(* CommandHandlerService: text commands *)

isCommand(content) ==
    startsWith(content, <<"/">>) \/ startsWith(content, <<"!">>)

\* parseCommand(content).command
parseCommand(content) ==
    LET cleanContent == IF isCommand(content) THEN Tail(content) ELSE content
    IN  firstWord(trim(cleanContent))

cmdLogin    == <<"l","o","g","i","n">>
cmdLogout   == <<"l","o","g","o","u","t">>
cmdDespesas == <<"d","e","s","p","e","s","a","s">>

\* the commands of handleTextCommand that look the author up
LooksUpAuthor(command) ==
    toLowerCase(command) \in {cmdLogin, cmdLogout, cmdDespesas}

\* the CommandResult of handleTextCommand: auth is the result of the
\* lookup, listing the outcome of ExpenseUseCase.getUserExpenses
handleTextCommand(command, auth, listing) ==
    LET c == toLowerCase(command) IN
    IF c = cmdLogin THEN
        IF auth.isAuthenticated THEN [success |-> TRUE, kind |-> "alreadyLoggedIn"]
        ELSE [success |-> TRUE, kind |-> "loginEmbed"]
    ELSE IF c = cmdLogout THEN
        IF ~auth.isAuthenticated THEN [success |-> FALSE, kind |-> "notLoggedIn"]
        ELSE [success |-> TRUE, kind |-> "logoutEmbed"]
    ELSE IF c = cmdDespesas THEN
        IF ~auth.isAuthenticated THEN [success |-> FALSE, kind |-> "authMessage"]
        ELSE IF listing = "fail" THEN [success |-> FALSE, kind |-> "listFailed"]
        ELSE IF listing = "empty" THEN [success |-> TRUE, kind |-> "noExpenses"]
        ELSE [success |-> TRUE, kind |-> "expensesEmbed"]
    ELSE [success |-> FALSE, kind |-> "unknownCommand"]

-----------------------------------------------------------------------------
(* DiscordBotHandlerService.handleMessage: filter and routing *)

\* index of the first attachment that has a name isAudioFile accepts, or 0
FirstAudio(m) ==
    LET hits == { k \in DOMAIN m.attachments :
                    /\ m.attachments[k].name # <<>>
                    /\ isAudioFile(m.attachments[k].name) }
    IN  IF hits = {} THEN 0 ELSE CHOOSE k \in hits : \A j \in hits : k <= j

NoInput == [kind |-> "none"]

\* the use case input handleMessage builds for a message it does not drop
Route(m) ==
    IF FirstAudio(m) # 0
    THEN [kind |-> "audio", audioUrl |-> m.attachments[FirstAudio(m)].url]
    ELSE IF trim(m.content) # <<>>
    THEN IF isCommand(trim(m.content))
         THEN [kind |-> "command", command |-> parseCommand(trim(m.content))]
         ELSE [kind |-> "text", content |-> trim(m.content)]
    ELSE NoInput

\* a handler that drops bot messages only
Ignored_BotsOnly(m) == m.bot

\* the messages handleMessage returns from at once
Ignored(m) == m.bot \/ m.guild

Dispatch(m) == IF Ignored(m) THEN NoInput ELSE Route(m)

FirstPc(in) ==
    CASE in.kind = "audio"   -> "A_typing"
      [] in.kind = "command" -> "C_handle"
      [] in.kind = "text"    -> "T_typing"
      [] OTHER               -> "done"

-----------------------------------------------------------------------------
(* Results of calls, errors, result envelopes *)

Ret(v)   == [kind |-> "return", value |-> v]
Throw(e) == [kind |-> "throw", error |-> e]

AppErrorNotFound(message) ==
    [type |-> "AppError", code |-> "NOT_FOUND", message |-> message]
PlainError(message) == [type |-> "Error", message |-> message]
\* what the libsql driver throws when a query fails
StorageError == PlainError("storage failure")
RecordNotFound == PlainError("Record with id not found")
\* a model object used as the operand of throw
ThrownModel(model) == [type |-> "Expense", message |-> "", model |-> model]

Ok(data)    == [success |-> TRUE, data |-> data]
OkVoid      == [success |-> TRUE]
Fail(error) == [success |-> FALSE, error |-> error]

\* a value that is undefined has no fields to spread
Undefined == [undefined |-> TRUE]
FieldsOf(v) == IF v = Undefined THEN {} ELSE DOMAIN v

-----------------------------------------------------------------------------
(* DrizzleDefaultRepository, over a table given as a set of rows *)

\* AuthRepository.mapToModel: User.createFrom(data)
UserMapToModel(row) == Ret(row)

\* ExpenseRepository.mapToModel: throw Expense.createFrom(data)
ExpenseMapToModel(row) == Throw(ThrownModel(row))

\* this.mapToModel of the repository named: "users" is the AuthRepository,
\* "expenses" the ExpenseRepository
mapToModel(repository, row) ==
    IF repository = "expenses" THEN ExpenseMapToModel(row) ELSE UserMapToModel(row)

RowsWithId(table, id) == { r \in table : r.id = id }

\* a .set(...) that also clears the deletedAt column when data leaves it out
SetFields_Replace(row, data, now) ==
    [f \in DOMAIN row |->
        IF f = "updatedAt" THEN now
        ELSE IF f \in FieldsOf(data) THEN data[f]
        ELSE IF f = "deletedAt" THEN Null
        ELSE row[f]]

\* .set({...data, updatedAt: now}) on one row
SetFields(row, data, now) ==
    [f \in DOMAIN row |->
        IF f = "updatedAt" THEN now
        ELSE IF f \in FieldsOf(data) THEN data[f]
        ELSE row[f]]

\* a timestamp in a column that may hold null
Date(t) == [time |-> t]

\* the columns of the table of each repository: "records" stands for a table
\* that has the optional deletedAt column
Columns(repository) ==
    IF repository = "expenses"
    THEN {"id", "date", "description", "amount", "category", "isRecurring",
          "userId", "createdAt", "updatedAt"}
    ELSE IF repository = "records"
    THEN {"id", "monthlySalary", "emailVerified", "createdAt", "updatedAt",
          "deletedAt"}
    ELSE {"id", "name"}

\* a create that stamps deletedAt like the other two timestamps
RepoCreate_Stamped(table, data, now, db, repository) ==
    IF db = "throw" \/ RowsWithId(table, data.id) # {}
    THEN [table |-> table, out |-> Throw(StorageError)]
    ELSE LET row == [c \in Columns(repository) |->
                        IF c \in {"createdAt", "updatedAt"} THEN now
                        ELSE IF c = "deletedAt" THEN Date(now)
                        ELSE data[c]]
         IN  [table |-> table \cup {row}, out |-> mapToModel(repository, row)]

\* create(data): table is the table before, db the outcome of the insert;
\* the insert writes {...data, createdAt: now, updatedAt: now, deletedAt:
\* null} into the columns the table has
RepoCreate(table, data, now, db, repository) ==
    IF db = "throw" \/ RowsWithId(table, data.id) # {}
    THEN [table |-> table, out |-> Throw(StorageError)]
    ELSE LET row == [c \in Columns(repository) |->
                        IF c \in {"createdAt", "updatedAt"} THEN now
                        ELSE IF c = "deletedAt" THEN Null
                        ELSE data[c]]
         IN  [table |-> table \cup {row}, out |-> mapToModel(repository, row)]

\* update(id, data)
RepoUpdate(table, id, data, now, db, repository) ==
    IF db = "throw" THEN [table |-> table, out |-> Throw(StorageError)]
    ELSE IF RowsWithId(table, id) = {}
    THEN [table |-> table, out |-> Throw(RecordNotFound)]
    ELSE LET old == CHOOSE r \in table : r.id = id
             row == SetFields(old, data, now)
         IN  [table |-> (table \ {old}) \cup {row}, out |-> mapToModel(repository, row)]

\* findById(id)
RepoFindById(table, id, db, repository) ==
    IF db = "throw" THEN Throw(StorageError)
    ELSE IF RowsWithId(table, id) = {} THEN Ret(Null)
    ELSE mapToModel(repository, CHOOSE r \in table : r.id = id)

\* a softDelete that does not look at the row the statement returned
RepoSoftDelete_Silent(table, id, now, db) ==
    IF db = "throw" THEN [table |-> table, out |-> Throw(StorageError)]
    ELSE [table |-> { IF r.id = id
                      THEN [f \in DOMAIN r |->
                              IF f = "deletedAt" THEN Date(now)
                              ELSE IF f = "updatedAt" THEN now ELSE r[f]]
                      ELSE r : r \in table },
          out |-> Ret(Undefined)]

\* softDelete(id): .set({deletedAt: now, updatedAt: now}) on the row
RepoSoftDelete(table, id, now, db) ==
    IF db = "throw" THEN [table |-> table, out |-> Throw(StorageError)]
    ELSE IF RowsWithId(table, id) = {}
    THEN [table |-> table, out |-> Throw(RecordNotFound)]
    ELSE LET old == CHOOSE r \in table : r.id = id
             row == [f \in DOMAIN old |->
                        IF f = "deletedAt" THEN Date(now)
                        ELSE IF f = "updatedAt" THEN now ELSE old[f]]
         IN  [table |-> (table \ {old}) \cup {row}, out |-> Ret(Undefined)]

\* a hardDelete that fails like update when no row has the id
RepoHardDelete_NotFound(table, id, db) ==
    IF db = "throw" THEN [table |-> table, out |-> Throw(StorageError)]
    ELSE IF RowsWithId(table, id) = {}
    THEN [table |-> table, out |-> Throw(RecordNotFound)]
    ELSE [table |-> table \ RowsWithId(table, id), out |-> Ret(Undefined)]

\* hardDelete(id)
RepoHardDelete(table, id, db) ==
    IF db = "throw" THEN [table |-> table, out |-> Throw(StorageError)]
    ELSE [table |-> table \ RowsWithId(table, id), out |-> Ret(Undefined)]

\* the orders in which a query may return rows under ORDER BY created_at
\* DESC: rows of equal creation time come in any order
DescByCreatedAt(rows) ==
    { s \in [1..Cardinality(rows) -> rows] :
        /\ \A i, j \in DOMAIN s : i # j => s[i] # s[j]
        /\ \A i, j \in DOMAIN s : i < j => s[i].createdAt >= s[j].createdAt }

\* results.map((result) => this.mapToModel(result))
MapRows(s, repository) ==
    IF \E i \in DOMAIN s : mapToModel(repository, s[i]).kind = "throw"
    THEN mapToModel(repository, s[CHOOSE i \in DOMAIN s :
                        /\ mapToModel(repository, s[i]).kind = "throw"
                        /\ \A j \in 1..(i - 1) : mapToModel(repository, s[j]).kind # "throw"])
    ELSE Ret([i \in DOMAIN s |-> mapToModel(repository, s[i]).value])

\* the orders in which a query may return rows under ORDER BY created_at ASC
AscByCreatedAt(rows) ==
    { s \in [1..Cardinality(rows) -> rows] :
        /\ \A i, j \in DOMAIN s : i # j => s[i] # s[j]
        /\ \A i, j \in DOMAIN s : i < j => s[i].createdAt <= s[j].createdAt }

\* the where argument of findAll and findWithPagination: absent, or the
\* condition that monthlySalary is above zero
Wheres == {"none", "salaried"}

Matches(where, r) == where = "none" \/ r.monthlySalary > 0

\* the rows findAll selects: the where condition, and deletedAt IS NULL when
\* the table has the column
FindAllRows(table, where, repository) ==
    { r \in table :
        /\ Matches(where, r)
        /\ ("deletedAt" \in Columns(repository) => r.deletedAt = Null) }

\* findAll(where) when the query returns its rows in the order s
RepoFindAll(s, db, repository) ==
    IF db = "throw" THEN Throw(StorageError) ELSE MapRows(s, repository)

\* the rows of baseQuery in findWithPagination: the where condition alone
PaginationRows(table, where) == { r \in table : Matches(where, r) }

\* orderBy createdAt in the direction asked for
Ordered(rows, orderDirection) ==
    IF orderDirection = "desc" THEN DescByCreatedAt(rows) ELSE AscByCreatedAt(rows)

\* a page count rounded down
Ceil_Floor(total, limit) == total \div limit

\* Math.ceil(total / limit)
Ceil(total, limit) == (total + limit - 1) \div limit

\* ExpenseRepository.findByUserId(userId, options) when the query returns
\* its rows in the order s; its catch logs and rethrows
DefaultPageSize == 50

Page(s, limit, offset) ==
    SubSeq(s, offset + 1, Min(Len(s), offset + limit))

FindByUserIdRows(table, userId, category) ==
    { r \in table :
        /\ r.userId = userId
        /\ (category # "" => r.category = category) }

RepoFindByUserId(s, limit, offset, db) ==
    IF db = "throw" THEN Throw(StorageError)
    ELSE MapRows(Page(s, IF limit # 0 THEN limit ELSE DefaultPageSize, offset),
                 "expenses")

\* findWithPagination({page, limit, orderDirection}, where) when baseQuery
\* returns its rows in the order s: the count is taken of baseQuery, the
\* data of baseQuery.offset((page - 1) * limit).limit(limit)
RepoFindWithPagination(s, page, limit, db, repository) ==
    IF db = "throw" THEN Throw(StorageError)
    ELSE LET data == MapRows(Page(s, limit, (page - 1) * limit), repository) IN
         IF data.kind = "throw" THEN data
         ELSE Ret([data       |-> data.value,
                   total      |-> Len(s),
                   page       |-> page,
                   limit      |-> limit,
                   totalPages |-> Ceil(Len(s), limit)])

-----------------------------------------------------------------------------
(* AuthService.getUserById *)

\* a getUserById that hands back null for a user it does not find
getUserById_NullWhenMissing(userId, db) ==
    RepoFindById(users, userId, db, "users")

getUserById(userId, db) ==
    LET user == RepoFindById(users, userId, db, "users") IN
    IF user.kind = "throw" THEN user
    ELSE IF user.value = Null THEN Throw(AppErrorNotFound("User not found"))
    ELSE user

-----------------------------------------------------------------------------
(* Expense model *)

\* Expense.create(data): the constructor supplies id and timestamps
ExpenseCreate(data, id, now) ==
    [id          |-> id,
     date        |-> data.date,
     description |-> data.description,
     amount      |-> data.amount,
     category    |-> data.category,
     isRecurring |-> data.isRecurring,
     userId      |-> data.userId,
     createdAt   |-> now,
     updatedAt   |-> now]

updateAmount(expense, newAmount, now) ==
    [expense EXCEPT !.amount = newAmount, !.updatedAt = now]
updateCategory(expense, newCategory, now) ==
    [expense EXCEPT !.category = newCategory, !.updatedAt = now]
updateDescription(expense, newDescription, now) ==
    [expense EXCEPT !.description = newDescription, !.updatedAt = now]

\* User.create(data): the constructor of DefaultModel supplies id and
\* timestamps
UserCreate(data, id, now) ==
    [id            |-> id,
     monthlySalary |-> data.monthlySalary,
     emailVerified |-> data.emailVerified,
     createdAt     |-> now,
     updatedAt     |-> now]

\* an updateSalary that builds the snapshot without the fields of this
updateSalary_Fresh(user, salary, now) ==
    [f \in DOMAIN user |->
        IF f = "monthlySalary" THEN salary
        ELSE IF f \in {"createdAt", "updatedAt"} THEN now
        ELSE IF f = "id" THEN "fresh"
        ELSE user[f]]

\* User.updateSalary: new User({...this, monthlySalary, updatedAt: new Date()})
updateSalary(user, salary, now) ==
    [user EXCEPT !.monthlySalary = salary, !.updatedAt = now]

\* User.verifyEmail: new User({...this, emailVerified: true, updatedAt: new Date()})
verifyEmail(user, now) ==
    [user EXCEPT !.emailVerified = TRUE, !.updatedAt = now]

\* new Date().toISOString().split('T')[0]
Today(now) == <<"day", now>>

-----------------------------------------------------------------------------
(* ExpenseUseCase: every operation yields the table after it and its result *)

\* a catch block that answers every exception with the generic message
UseCaseCatch_GenericOnly(out, generic) ==
    IF out.kind = "throw" THEN Ret(Fail(generic)) ELSE out

\* the catch block shared by the operations
UseCaseCatch(out, generic) ==
    IF out.kind = "throw"
    THEN Ret(IF out.error.type = "AppError" THEN Fail(out.error.message)
             ELSE Fail(generic))
    ELSE out

\* the exception that reached an operation's catch block, if one did
Failure(out) == IF out.kind = "throw" THEN out.error ELSE [type |-> "none"]

\* the method whose catch block took the exception, if one did
CaughtBy(method, out) == IF out.kind = "throw" THEN method ELSE ""

Done(method, table, body, generic) ==
    [table    |-> table,
     out      |-> UseCaseCatch(body, generic),
     failure  |-> Failure(body),
     caughtBy |-> CaughtBy(method, body)]

createExpense(userId, input, id, now, dbAuth, dbCreate) ==
    LET user == getUserById(userId, dbAuth) IN
    IF user.kind = "throw" THEN Done("createExpense", expenses, user, "Failed to create expense")
    ELSE
      LET expenseData ==
            ExpenseCreate([description |-> input.description,
                           amount      |-> input.amount,
                           category    |-> input.category,
                           date        |-> IF input.date # <<>> THEN input.date
                                           ELSE Today(now),
                           isRecurring |-> input.isRecurring,
                           userId      |-> userId], id, now)
          created == RepoCreate(expenses, expenseData, now, dbCreate, "expenses")
      IN  Done("createExpense", created.table,
               IF created.out.kind = "throw" THEN created.out
               ELSE Ret(Ok(created.out.value)),
               "Failed to create expense")

getExpense(expenseId, db) ==
    LET expense == RepoFindById(expenses, expenseId, db, "expenses") IN
    Done("getExpense", expenses,
         IF expense.kind = "throw" THEN expense
         ELSE IF expense.value = Null THEN Ret(Fail(""))
         ELSE Ret(Ok(expense.value)),
         "Failed to get expense")

getUserExpenses(userId, category, limit, offset, s, dbAuth, dbFind) ==
    LET user == getUserById(userId, dbAuth) IN
    IF user.kind = "throw" THEN Done("getUserExpenses", expenses, user, "Failed to get expenses")
    ELSE LET found == RepoFindByUserId(s, limit, offset, dbFind) IN
         Done("getUserExpenses", expenses,
              IF found.kind = "throw" THEN found ELSE Ret(Ok(found.value)),
              "Failed to get expenses")

\* the snapshot updateExpense hands to the repository: the update methods
\* are called for the fields present in input, and the snapshots they
\* return are dropped
SnapshotToUpdate(expenseToUpdate, input, now) ==
    LET d == IF input.description.has /\ expenseToUpdate # Undefined
             THEN updateDescription(expenseToUpdate, input.description.v, now)
             ELSE expenseToUpdate
        a == IF input.amount.has /\ expenseToUpdate # Undefined
             THEN updateAmount(expenseToUpdate, input.amount.v, now)
             ELSE expenseToUpdate
        c == IF input.category.has /\ expenseToUpdate # Undefined
             THEN updateCategory(expenseToUpdate, input.category.v, now)
             ELSE expenseToUpdate
    IN  expenseToUpdate

updateExpense(expenseId, input, now, dbFind, dbUpdate) ==
    LET got == getExpense(expenseId, dbFind).out.value
        error == IF "error" \in DOMAIN got THEN got.error ELSE ""
        expenseToUpdate == IF "data" \in DOMAIN got THEN got.data ELSE Undefined
    IN  IF error # ""
        THEN [table    |-> expenses,
              out      |-> Ret(Fail(error)),
              failure  |-> getExpense(expenseId, dbFind).failure,
              caughtBy |-> getExpense(expenseId, dbFind).caughtBy]
        ELSE LET updated == RepoUpdate(expenses, expenseId,
                                       SnapshotToUpdate(expenseToUpdate, input, now),
                                       now, dbUpdate, "expenses")
             IN  Done("updateExpense", updated.table,
                      IF updated.out.kind = "throw" THEN updated.out
                      ELSE Ret(Ok(updated.out.value)),
                      "Failed to update expense")

deleteExpense(expenseId, userId, db) ==
    LET deleted == RepoHardDelete(expenses, expenseId, db) IN
    Done("deleteExpense", deleted.table,
         IF deleted.out.kind = "throw" THEN deleted.out ELSE Ret(OkVoid),
         "Failed to delete expense")

-----------------------------------------------------------------------------
(* Inbound messages and the outcomes of external calls *)

Authors == {"d1", "d2", "d3"}

nameMp3    == <<"a",".","m","p","3">>
nameWav    == <<"B",".","W","A","V">>
nameOgg    == <<"v",".","O","g","g">>
nameM4a    == <<"d",".","m","4","a">>
nameAac    == <<"e",".","a","a","c">>
nameOpus   == <<"c",".","o","p","u","s">>
nameWebm   == <<"x",".","w","e","b","m">>
nameTxt    == <<"a",".","t","x","t">>
nameNoDot  == <<"m","p","3">>
nameMp3Txt == <<"a",".","m","p","3",".","t","x","t">>
nameAbsent == <<>>

FileNames == {nameMp3, nameWav, nameOgg, nameM4a, nameAac, nameOpus, nameWebm,
              nameTxt, nameNoDot, nameMp3Txt, nameAbsent}

\* message.attachments.values(): attachments in order, url standing for
\* the attachment's position
Attachments(names) == [k \in DOMAIN names |-> [name |-> names[k], url |-> k]]

AttachmentLists ==
    {<<>>} \cup { Attachments(<<n>>) : n \in FileNames }
           \cup { Attachments(<<nameTxt, nameAbsent, nameOgg, nameMp3>>) }

Contents ==
    { <<>>,
      <<" "," ">>,
      <<"o","i">>,
      <<" ","o","i","\n">>,
      <<"a","/","b">>,
      <<"/","l","o","g","i","n">>,
      <<" ","!","l","o","g","o","u","t"," ">>,
      <<"/","D","E","S","P","E","S","A","S"," ","-","p">>,
      <<"/","x">>,
      <<"/">> }

\* the texts that come with an attachment
Captions == { <<>>, <<"o","i">>, <<"/","l","o","g","i","n">> }

Messages ==
    { m \in [author : Authors, bot : BOOLEAN, guild : BOOLEAN,
             attachments : AttachmentLists, content : Contents] :
        m.attachments = <<>> \/ m.content \in Captions }

NoMsg == [author |-> "", bot |-> FALSE, guild |-> FALSE,
          attachments |-> <<>>, content |-> <<>>]

\* lengths of the short texts the agent and the transcriber answer with
ReplyLen == 3
TranscriptLen == 2

Threw == [kind |-> "throw"]
Answer(text) == [kind |-> "text", text |-> text]

AgentOutcomes ==
    {Threw, Answer(<<>>), Answer(Text(ReplyLen)),
     Answer(Text(MaxMessageLength)), Answer(Text(MaxMessageLength + 1))}

TranscribeOutcomes ==
    {Threw, [kind |-> "absent"], Answer(<<>>), Answer(<<" ", "\n">>),
     Answer(<<" ">> \o Text(TranscriptLen))}

TextApology       == Lit(66, "T")
AudioApology      == Lit(63, "A")
UnexpectedApology == Lit(58, "X")

NoAuth  == [isAuthenticated |-> FALSE, message |-> <<>>, pending |-> TRUE]
NoAudio == [transcription |-> <<>>, isSuccess |-> FALSE, pending |-> TRUE]
NoResult == [isSuccess |-> FALSE, pending |-> TRUE]

-----------------------------------------------------------------------------
(* DiscordBotHandlerService.handleMessage *)

\* a catch block whose reply is not guarded: the exception leaves the handler
HandlerReplyFailed_Unguarded == "escaped"

\* where the handler goes when the reply of its own catch block fails:
\* the inner try/catch logs replyError and the handler returns
HandlerReplyFailed == "done"

\* the event dispatcher emits messageCreate; handleMessage runs up to its
\* first await
Receive(m) ==
    /\ pc = "idle"
    /\ msg' = m
    /\ routed' = Dispatch(m)
    /\ pc' = FirstPc(Dispatch(m))
    /\ UNCHANGED <<authCheck, audioResult, send, log, caught, result>>
    /\ UNCHANGED <<authVars, sysVars, expVars, repoVars>>

\* the promise of handleMessage resolves
Return ==
    /\ pc = "done"
    /\ pc' = "idle"
    /\ msg' = NoMsg /\ routed' = NoInput
    /\ authCheck' = NoAuth /\ audioResult' = NoAudio
    /\ send' = NoSend /\ log' = <<>> /\ caught' = <<>> /\ result' = NoResult
    /\ UNCHANGED <<authVars, sysVars, expVars, repoVars>>

\* the catch block of handleMessage
HCatch ==
    /\ pc = "H_catch"
    /\ caught' = Append(caught, "handleMessage")
    /\ \E ok \in BOOLEAN :
         /\ log' = Append(log, Entry("reply", UnexpectedApology, ok))
         /\ pc' = IF ok THEN "done" ELSE HandlerReplyFailed
    /\ UNCHANGED <<msg, routed, authCheck, audioResult, send, result>>
    /\ UNCHANGED <<authVars, sysVars, expVars, repoVars>>

\* the command branch up to message.reply: parseCommand, handleTextCommand
CHandle ==
    /\ pc = "C_handle"
    /\ \E storage \in StorageOutcomes, dbAuth \in StorageOutcomes,
          dbFind \in StorageOutcomes :
         LET command == routed.command
             auth == IF LooksUpAuthor(command)
                     THEN checkAuthAndGetMessage(msg.author, storage)
                     ELSE NoAuth
             lists == toLowerCase(command) = cmdDespesas /\ auth.isAuthenticated
         IN  \E s \in IF lists
                      THEN DescByCreatedAt(FindByUserIdRows(expenses, auth.userId, ""))
                      ELSE {<<>>} :
               LET got == IF lists
                          THEN getUserExpenses(auth.userId, "", 10, 0, s,
                                               dbAuth, dbFind).out.value
                          ELSE Fail("")
                   listing == IF ~got.success THEN "fail"
                              ELSE IF got.data = <<>> THEN "empty" ELSE "rows"
               IN  /\ authCheck' = auth
                   /\ result' = handleTextCommand(command, auth, listing)
                   /\ log' = log
                        \o (IF LooksUpAuthor(command)
                            THEN <<Entry("auth", msg.author, storage = "ok")>>
                            ELSE <<>>)
                        \o (IF lists
                            THEN <<Entry("getUserExpenses", auth.userId, got.success)>>
                            ELSE <<>>)
    /\ pc' = "C_reply"
    /\ UNCHANGED <<msg, routed, audioResult, send, caught>>
    /\ UNCHANGED <<authVars, sysVars, expVars, repoVars>>

\* await message.reply(replyOptions) of the command branch
CReply ==
    /\ pc = "C_reply"
    /\ \E ok \in BOOLEAN :
         /\ log' = Append(log, Entry("replyOptions", result, ok))
         /\ pc' = IF ok THEN "done" ELSE "H_catch"
    /\ UNCHANGED <<msg, routed, authCheck, audioResult, send, caught, result>>
    /\ UNCHANGED <<authVars, sysVars, expVars, repoVars>>

-----------------------------------------------------------------------------
(* DiscordMessageUseCase.handleTextMessage *)

\* if (!authCheck.isAuthenticated): the login prompt is sent and the
\* handler returns
NeedsLogin(auth) == ~auth.isAuthenticated

\* an exchange that names the Discord author instead of the linked user
TextAgentCall_AuthorId(content, auth) ==
    AgentCall(content, msg.author, auth.userName)

\* the exchange processTextMessage hands to the agent
TextAgentCall(content, auth) == AgentCall(content, auth.userId, auth.userName)

\* the exchange processAudioTranscription hands to the agent
AudioAgentCall(transcription, auth) ==
    AgentCall(transcription, auth.userId, auth.userName)

\* await input.message.channel.sendTyping()
TTyping ==
    /\ pc = "T_typing"
    /\ \E ok \in BOOLEAN :
         /\ log' = Append(log, Entry("typing", <<>>, ok))
         /\ pc' = IF ok THEN "T_auth" ELSE "T_catch"
    /\ UNCHANGED <<msg, routed, authCheck, audioResult, send, caught, result>>
    /\ UNCHANGED <<authVars, sysVars, expVars, repoVars>>

\* the auth check and the branch on its result
TAuth ==
    /\ pc = "T_auth"
    /\ \E storage \in StorageOutcomes :
         LET auth == checkAuthAndGetMessage(msg.author, storage) IN
         /\ authCheck' = auth
         /\ log' = Append(log, Entry("auth", msg.author, storage = "ok"))
         /\ IF NeedsLogin(auth)
            THEN /\ send' = CallSend(auth.message, "done", "T_catch")
                 /\ pc' = "send"
            ELSE /\ send' = send
                 /\ pc' = "T_agent"
    /\ UNCHANGED <<msg, routed, audioResult, caught, result>>
    /\ UNCHANGED <<authVars, sysVars, expVars, repoVars>>

\* processTextMessage, the throw on its failure, the call of
\* sendDirectMessage with its response
TAgent ==
    /\ pc = "T_agent"
    /\ \E outcome \in AgentOutcomes :
         LET r == processResult(outcome) IN
         /\ log' = Append(log, Entry("agent", TextAgentCall(routed.content, authCheck),
                                     outcome.kind # "throw"))
         /\ result' = r
         /\ IF ~r.isSuccess
            THEN /\ send' = send
                 /\ pc' = "T_catch"
            ELSE /\ send' = CallSend(r.response, "done", "T_catch")
                 /\ pc' = "send"
    /\ UNCHANGED <<msg, routed, authCheck, audioResult, caught>>
    /\ UNCHANGED <<authVars, sysVars, expVars, repoVars>>

\* the catch block of handleTextMessage: its reply is not guarded
TCatch ==
    /\ pc = "T_catch"
    /\ caught' = Append(caught, "handleTextMessage")
    /\ \E ok \in BOOLEAN :
         /\ log' = Append(log, Entry("reply", TextApology, ok))
         /\ pc' = IF ok THEN "done" ELSE "H_catch"
    /\ UNCHANGED <<msg, routed, authCheck, audioResult, send, result>>
    /\ UNCHANGED <<authVars, sysVars, expVars, repoVars>>

-----------------------------------------------------------------------------
(* DiscordMessageUseCase.handleAudioMessage *)

ATyping ==
    /\ pc = "A_typing"
    /\ \E ok \in BOOLEAN :
         /\ log' = Append(log, Entry("typing", <<>>, ok))
         /\ pc' = IF ok THEN "A_react" ELSE "A_catch"
    /\ UNCHANGED <<msg, routed, authCheck, audioResult, send, caught, result>>
    /\ UNCHANGED <<authVars, sysVars, expVars, repoVars>>

\* await input.message.react(headphones)
AReact ==
    /\ pc = "A_react"
    /\ \E ok \in BOOLEAN :
         /\ log' = Append(log, Entry("react", "processing", ok))
         /\ pc' = IF ok THEN "A_auth" ELSE "A_catch"
    /\ UNCHANGED <<msg, routed, authCheck, audioResult, send, caught, result>>
    /\ UNCHANGED <<authVars, sysVars, expVars, repoVars>>

AAuth ==
    /\ pc = "A_auth"
    /\ \E storage \in StorageOutcomes :
         LET auth == checkAuthAndGetMessage(msg.author, storage) IN
         /\ authCheck' = auth
         /\ log' = Append(log, Entry("auth", msg.author, storage = "ok"))
         /\ IF NeedsLogin(auth)
            THEN /\ send' = CallSend(auth.message, "done", "A_catch")
                 /\ pc' = "send"
            ELSE /\ send' = send
                 /\ pc' = "A_transcribe"
    /\ UNCHANGED <<msg, routed, audioResult, caught, result>>
    /\ UNCHANGED <<authVars, sysVars, expVars, repoVars>>

\* processAudio and the branch on its result
ATranscribe ==
    /\ pc = "A_transcribe"
    /\ \E outcome \in TranscribeOutcomes :
         LET a == processAudio(outcome) IN
         /\ audioResult' = a
         /\ log' = Append(log, Entry("transcribe", routed.audioUrl,
                                     outcome.kind # "throw"))
         /\ pc' = IF a.isSuccess THEN "A_agent" ELSE "A_errReply"
    /\ UNCHANGED <<msg, routed, authCheck, send, caught, result>>
    /\ UNCHANGED <<authVars, sysVars, expVars, repoVars>>

\* await input.message.reply(audioResult.error ?? ...)
AErrReply ==
    /\ pc = "A_errReply"
    /\ \E ok \in BOOLEAN :
         /\ log' = Append(log, Entry("reply",
                                     IF "error" \in DOMAIN audioResult
                                     THEN audioResult.error ELSE AudioDefaultError,
                                     ok))
         /\ pc' = IF ok THEN "A_errReact" ELSE "A_catch"
    /\ UNCHANGED <<msg, routed, authCheck, audioResult, send, caught, result>>
    /\ UNCHANGED <<authVars, sysVars, expVars, repoVars>>

\* await input.message.react(cross) after the could-not-understand reply
AErrReact ==
    /\ pc = "A_errReact"
    /\ \E ok \in BOOLEAN :
         /\ log' = Append(log, Entry("react", "failure", ok))
         /\ pc' = IF ok THEN "done" ELSE "A_catch"
    /\ UNCHANGED <<msg, routed, authCheck, audioResult, send, caught, result>>
    /\ UNCHANGED <<authVars, sysVars, expVars, repoVars>>

\* processAudioTranscription, the throw on its failure, the call of
\* sendDirectMessage with the full reply
AAgent ==
    /\ pc = "A_agent"
    /\ \E outcome \in AgentOutcomes :
         LET r == processResult(outcome) IN
         /\ log' = Append(log, Entry("agent",
                                     AudioAgentCall(audioResult.transcription, authCheck),
                                     outcome.kind # "throw"))
         /\ result' = r
         /\ IF ~r.isSuccess
            THEN /\ send' = send
                 /\ pc' = "A_catch"
            ELSE /\ send' = CallSend(fullReply(audioResult.transcription, r.response),
                                     "A_okReact", "A_catch")
                 /\ pc' = "send"
    /\ UNCHANGED <<msg, routed, authCheck, audioResult, caught>>
    /\ UNCHANGED <<authVars, sysVars, expVars, repoVars>>

\* await input.message.react(check mark)
AOkReact ==
    /\ pc = "A_okReact"
    /\ \E ok \in BOOLEAN :
         /\ log' = Append(log, Entry("react", "success", ok))
         /\ pc' = IF ok THEN "done" ELSE "A_catch"
    /\ UNCHANGED <<msg, routed, authCheck, audioResult, send, caught, result>>
    /\ UNCHANGED <<authVars, sysVars, expVars, repoVars>>

\* the catch block of handleAudioMessage: reply, then react, both unguarded
ACatch ==
    /\ pc = "A_catch"
    /\ caught' = Append(caught, "handleAudioMessage")
    /\ \E ok \in BOOLEAN :
         /\ log' = Append(log, Entry("reply", AudioApology, ok))
         /\ pc' = IF ok THEN "A_catchReact" ELSE "H_catch"
    /\ UNCHANGED <<msg, routed, authCheck, audioResult, send, result>>
    /\ UNCHANGED <<authVars, sysVars, expVars, repoVars>>

ACatchReact ==
    /\ pc = "A_catchReact"
    /\ \E ok \in BOOLEAN :
         /\ log' = Append(log, Entry("react", "failure", ok))
         /\ pc' = IF ok THEN "done" ELSE "H_catch"
    /\ UNCHANGED <<msg, routed, authCheck, audioResult, send, caught, result>>
    /\ UNCHANGED <<authVars, sysVars, expVars, repoVars>>

-----------------------------------------------------------------------------
(* sendDirectMessage called on its own *)

\* the contents sent: lengths around the multiples of the message limit
MaxChunks == 2

SendLengths ==
    { n \in { k * MaxMessageLength + d : k \in 0..MaxChunks, d \in {-1, 0, 1} } :
        n >= 0 }

SendCall(n) ==
    /\ pc = "idle"
    /\ send' = CallSend(Text(n), "returned", "thrown")
    /\ pc' = "send"
    /\ UNCHANGED <<msg, routed, authCheck, audioResult, log, caught, result>>
    /\ UNCHANGED <<authVars, sysVars, expVars, repoVars>>

\* the caller's await of sendDirectMessage settles
SendSettled ==
    /\ pc \in {"returned", "thrown"}
    /\ pc' = "idle"
    /\ log' = <<>> /\ send' = NoSend
    /\ UNCHANGED <<msg, routed, authCheck, audioResult, caught, result>>
    /\ UNCHANGED <<authVars, sysVars, expVars, repoVars>>

-----------------------------------------------------------------------------
(* Calls of the ExpenseUseCase *)

None    == [has |-> FALSE]
Some(v) == [has |-> TRUE, v |-> v]

UserIds    == {"u1", "u2", "u9"}
ExpenseIds == {"e1", "e2"}

CreateInputs ==
    { [description |-> "lunch", amount |-> 10, category |-> "leisure",
       date |-> <<>>, isRecurring |-> FALSE],
      [description |-> "rent", amount |-> 25, category |-> "essentials",
       date |-> <<"2024-05-01">>, isRecurring |-> TRUE],
      [description |-> "", amount |-> 0, category |-> "food",
       date |-> <<>>, isRecurring |-> FALSE] }

UpdateInputs ==
    { in \in [description : {None, Some("dinner")},
              amount      : {None, Some(99)},
              category    : {None, Some("knowledge")}] :
        in.category.has => in.amount.has }

\* a row that an earlier insert left in the table
SeedExpense ==
    ExpenseCreate([description |-> "coffee", amount |-> 5, category |-> "leisure",
                   date |-> <<"2024-04-30">>, isRecurring |-> FALSE,
                   userId |-> "u1"], "e1", 0)

MaxClock == 1

NoCall == [op |-> "none", expenseId |-> "", userId |-> "", input |-> Undefined,
           out |-> Ret(Undefined), failure |-> [type |-> "none"], caughtBy |-> "",
           before |-> {}]

Call(op, expenseId, userId, in, done) ==
    [op |-> op, expenseId |-> expenseId, userId |-> userId, input |-> in,
     out |-> done.out, failure |-> done.failure, caughtBy |-> done.caughtBy,
     before |-> expenses]

\* time passes
Tick ==
    /\ clock < MaxClock
    /\ clock' = clock + 1
    /\ UNCHANGED <<expenses, ucResult>>
    /\ UNCHANGED <<authVars, sysVars, pipeVars, repoVars>>

CreateExpense ==
    /\ \E userId \in UserIds, in \in CreateInputs,
          id \in ExpenseIds \ { r.id : r \in expenses },
          dbAuth \in StorageOutcomes, dbCreate \in StorageOutcomes :
         LET done == createExpense(userId, in, id, clock, dbAuth, dbCreate) IN
         /\ expenses' = done.table
         /\ ucResult' = Call("createExpense", "", userId, in, done)
    /\ UNCHANGED <<clock, authVars, sysVars, pipeVars, repoVars>>

GetExpense ==
    /\ \E expenseId \in ExpenseIds, db \in StorageOutcomes :
         LET done == getExpense(expenseId, db) IN
         /\ expenses' = done.table
         /\ ucResult' = Call("getExpense", expenseId, "", Undefined, done)
    /\ UNCHANGED <<clock, authVars, sysVars, pipeVars, repoVars>>

GetUserExpenses ==
    /\ \E userId \in UserIds, dbAuth \in StorageOutcomes, dbFind \in StorageOutcomes :
       \E s \in DescByCreatedAt(FindByUserIdRows(expenses, userId, "")) :
         LET done == getUserExpenses(userId, "", 0, 0, s, dbAuth, dbFind) IN
         /\ expenses' = done.table
         /\ ucResult' = Call("getUserExpenses", "", userId, Undefined, done)
    /\ UNCHANGED <<clock, authVars, sysVars, pipeVars, repoVars>>

UpdateExpense ==
    /\ \E expenseId \in ExpenseIds, in \in UpdateInputs,
          dbFind \in StorageOutcomes, dbUpdate \in StorageOutcomes :
         LET done == updateExpense(expenseId, in, clock, dbFind, dbUpdate) IN
         /\ expenses' = done.table
         /\ ucResult' = Call("updateExpense", expenseId, "", in, done)
    /\ UNCHANGED <<clock, authVars, sysVars, pipeVars, repoVars>>

DeleteExpense ==
    /\ \E expenseId \in ExpenseIds, userId \in UserIds, db \in StorageOutcomes :
         LET done == deleteExpense(expenseId, userId, db) IN
         /\ expenses' = done.table
         /\ ucResult' = Call("deleteExpense", expenseId, userId, Undefined, done)
    /\ UNCHANGED <<clock, authVars, sysVars, pipeVars, repoVars>>

-----------------------------------------------------------------------------
(* Calls of the repository of records, and of the models' update methods *)

RecordIds == {"r1", "r2"}

\* the salaries of the users created
Salaries == {0, 10}

\* the ids no row of the table has
Unused(table) == { id \in RecordIds : RowsWithId(table, id) = {} }

\* randomUUID(): an id no row has, the first of them
randomUUID(table) ==
    IF "r1" \in Unused(table) THEN "r1" ELSE CHOOSE id \in Unused(table) : TRUE

\* the data of update(id, data): some of the fields of the model
Partials ==
    { [monthlySalary |-> 10], [emailVerified |-> TRUE] }

\* the pages and page sizes asked of findWithPagination
MaxPage == 2
MaxLimit == 2

NoRepoCall ==
    [op |-> "none", id |-> "", data |-> Undefined, where |-> "none",
     page |-> 0, limit |-> 0, orderDirection |-> "", entity |-> Undefined,
     out |-> Ret(Undefined), before |-> {}]

\* repository.create(User.create({...}))
RCreate ==
    /\ Unused(records) # {}
    /\ \E salary \in Salaries, db \in StorageOutcomes :
         LET id   == randomUUID(records)
             data == UserCreate([monthlySalary |-> salary, emailVerified |-> FALSE],
                                id, clock)
             done == RepoCreate(records, data, clock, db, "records")
         IN  /\ records' = done.table
             /\ repoResult' = [NoRepoCall EXCEPT !.op = "create", !.id = id,
                                 !.data = data, !.out = done.out,
                                 !.before = records]
    /\ UNCHANGED <<authVars, sysVars, pipeVars, expVars>>

\* repository.update(id, data)
RUpdate ==
    /\ \E id \in RecordIds, data \in Partials, db \in StorageOutcomes :
         LET done == RepoUpdate(records, id, data, clock, db, "records") IN
         /\ records' = done.table
         /\ repoResult' = [NoRepoCall EXCEPT !.op = "update", !.id = id,
                             !.data = data, !.out = done.out,
                             !.before = records]
    /\ UNCHANGED <<authVars, sysVars, pipeVars, expVars>>

\* repository.softDelete(id)
RSoftDelete ==
    /\ \E id \in RecordIds, db \in StorageOutcomes :
         LET done == RepoSoftDelete(records, id, clock, db) IN
         /\ records' = done.table
         /\ repoResult' = [NoRepoCall EXCEPT !.op = "softDelete", !.id = id,
                             !.out = done.out, !.before = records]
    /\ UNCHANGED <<authVars, sysVars, pipeVars, expVars>>

\* repository.findAll(where)
RFindAll ==
    /\ \E where \in Wheres, db \in StorageOutcomes :
       \E s \in AscByCreatedAt(FindAllRows(records, where, "records")) :
         repoResult' = [NoRepoCall EXCEPT !.op = "findAll", !.where = where,
                          !.out = RepoFindAll(s, db, "records"),
                          !.before = records]
    /\ UNCHANGED <<records, authVars, sysVars, pipeVars, expVars>>

\* repository.findWithPagination({page, limit, orderDirection}, where)
RFindWithPagination ==
    /\ \E where \in Wheres, page \in 1..MaxPage, limit \in 1..MaxLimit,
          orderDirection \in {"asc", "desc"}, db \in StorageOutcomes :
       \E s \in Ordered(PaginationRows(records, where), orderDirection) :
         repoResult' = [NoRepoCall EXCEPT !.op = "findWithPagination",
                          !.where = where, !.page = page, !.limit = limit,
                          !.orderDirection = orderDirection,
                          !.out = RepoFindWithPagination(s, page, limit, db,
                                                         "records"),
                          !.before = records]
    /\ UNCHANGED <<records, authVars, sysVars, pipeVars, expVars>>

\* expenseRepository.findByUserId(userId) without options
RFindByUserId ==
    /\ \E userId \in UserIds, db \in StorageOutcomes :
       \E s \in DescByCreatedAt(FindByUserIdRows(expenses, userId, "")) :
         repoResult' = [NoRepoCall EXCEPT !.op = "findByUserId", !.id = userId,
                          !.out = RepoFindByUserId(s, 0, 0, db),
                          !.before = expenses]
    /\ UNCHANGED <<records, authVars, sysVars, pipeVars, expVars>>

ModelMethods ==
    {"updateSalary", "verifyEmail", "updateAmount", "updateCategory",
     "updateDescription"}

\* the models in hand: each mapped from a stored row
Entities == records \cup expenses

\* one of the update methods of User or Expense, called on a model in hand
ModelUpdate ==
    /\ \E e \in Entities :
       \E method \in IF "monthlySalary" \in DOMAIN e
                     THEN {"updateSalary", "verifyEmail"}
                     ELSE {"updateAmount", "updateCategory", "updateDescription"} :
         LET new == CASE method = "updateSalary"   -> updateSalary(e, 20, clock)
                      [] method = "verifyEmail"    -> verifyEmail(e, clock)
                      [] method = "updateAmount"   -> updateAmount(e, 99, clock)
                      [] method = "updateCategory" -> updateCategory(e, "knowledge", clock)
                      [] OTHER -> updateDescription(e, "dinner", clock)
         IN  repoResult' = [NoRepoCall EXCEPT !.op = method, !.id = e.id,
                              !.entity = e, !.out = Ret(new)]
    /\ UNCHANGED <<records, authVars, sysVars, pipeVars, expVars>>

-----------------------------------------------------------------------------
(* The /api/auth/* route: the bridge to the OAuth handler *)

\* the responses of auth.handler: a status, headers, and a body or none
Statuses == {200, 302}
ContentTypes == {"", "application/json", "text/html"}

HeadersOf(setCookie, contentType) ==
    (IF setCookie THEN {"set-cookie"} ELSE {})
        \cup (IF contentType # "" THEN {"content-type"} ELSE {})

Responses ==
    { [status |-> st, headers |-> HeadersOf(c, ct), contentType |-> ct, body |-> b] :
        st \in Statuses, c \in BOOLEAN, ct \in ContentTypes, b \in BOOLEAN }

\* the Fastify reply before the handler touched it
NoReply == [status |-> 200, headers |-> {}, type |-> "", sent |-> <<>>]

NoBridge == [pc |-> "idle", response |-> Undefined, dropped |-> {}, reply |-> NoReply]

\* the body of the catch block's response
AuthFailure == [error |-> "Internal authentication error", code |-> "AUTH_FAILURE"]

\* reply.send(payload): what goes out is the reply as it stands
Send(reply, payload) ==
    [reply EXCEPT !.sent = Append(@, [status  |-> reply.status,
                                      headers |-> reply.headers,
                                      type    |-> reply.type,
                                      payload |-> payload])]

\* reply.type(...) by the content-type of the response
TypeOf(contentType) ==
    IF contentType = "" THEN ""
    ELSE IF contentType = "application/json" THEN "application/json"
    ELSE contentType

\* new URL(...), the Headers and the Request are built; either may throw
BRequest ==
    /\ bridge.pc = "idle"
    /\ \E ok \in BOOLEAN :
         bridge' = [NoBridge EXCEPT !.pc = IF ok THEN "B_handler" ELSE "B_catch"]
    /\ UNCHANGED <<slash, handlers, delivered, boot, mcp>>
    /\ UNCHANGED <<authVars, pipeVars, expVars, repoVars>>

\* await auth.handler(req), then the copy of status and headers; without a
\* body reply.send(null), with one reply.type(...) and the await of
\* response.text()
BHandler ==
    /\ bridge.pc = "B_handler"
    /\ \/ bridge' = [bridge EXCEPT !.pc = "B_catch"]
       \/ \E response \in Responses : \E dropped \in SUBSET response.headers :
            LET copied == [bridge.reply EXCEPT
                              !.status = response.status,
                              !.headers = response.headers \ dropped]
            IN  bridge' =
                  IF response.body
                  THEN [bridge EXCEPT
                          !.pc = "B_body", !.response = response,
                          !.dropped = dropped,
                          !.reply = [copied EXCEPT
                                       !.type = TypeOf(response.contentType)]]
                  ELSE [bridge EXCEPT
                          !.pc = "done", !.response = response,
                          !.dropped = dropped,
                          !.reply = Send(copied, "null")]
    /\ UNCHANGED <<slash, handlers, delivered, boot, mcp>>
    /\ UNCHANGED <<authVars, pipeVars, expVars, repoVars>>

\* await response.text() settles: reply.send(text), or the catch block
BBody ==
    /\ bridge.pc = "B_body"
    /\ \E ok \in BOOLEAN :
         bridge' = IF ok
                   THEN [bridge EXCEPT !.pc = "done",
                                       !.reply = Send(bridge.reply, "body")]
                   ELSE [bridge EXCEPT !.pc = "B_catch"]
    /\ UNCHANGED <<slash, handlers, delivered, boot, mcp>>
    /\ UNCHANGED <<authVars, pipeVars, expVars, repoVars>>

\* the catch block: reply.status(500).send({error, code})
BCatch ==
    /\ bridge.pc = "B_catch"
    /\ bridge' = [bridge EXCEPT
                    !.pc = "done",
                    !.reply = Send([bridge.reply EXCEPT !.status = 500],
                                   AuthFailure)]
    /\ UNCHANGED <<slash, handlers, delivered, boot, mcp>>
    /\ UNCHANGED <<authVars, pipeVars, expVars, repoVars>>

\* the next request
BReturn ==
    /\ bridge.pc = "done"
    /\ bridge' = NoBridge
    /\ UNCHANGED <<slash, handlers, delivered, boot, mcp>>
    /\ UNCHANGED <<authVars, pipeVars, expVars, repoVars>>

-----------------------------------------------------------------------------
(* The interactionCreate listener and the slash commands *)

CommandNames == {"login", "logout", "despesas", "ping"}

SlashApology == Lit(58, "Z")
UnknownCommand == Lit(25, "U")

NoSlash == [pc |-> "idle", commandName |-> "", user |-> "", replied |-> FALSE,
            replies |-> <<>>]

\* interaction.reply(options): accepted once, and then interaction.replied
Reply(s, content, ok) ==
    [s EXCEPT !.replies = Append(@, [content |-> content, ok |-> ok]),
              !.replied = @ \/ ok]

\* the listener: interactions that are no chat input commands are left alone
SInteraction ==
    /\ slash.pc = "idle"
    /\ \E isChatInputCommand \in BOOLEAN, commandName \in CommandNames,
          user \in Authors :
         slash' = [NoSlash EXCEPT
                     !.pc = IF isChatInputCommand THEN "S_handle" ELSE "done",
                     !.commandName = commandName, !.user = user]
    /\ UNCHANGED <<bridge, handlers, delivered, boot, mcp>>
    /\ UNCHANGED <<authVars, pipeVars, expVars, repoVars>>

\* the switch of CommandHandlerService.handleSlashCommand: the handler of
\* the command answers with a result or throws; a name that is none of the
\* three gets the result of the default branch
SHandle ==
    /\ slash.pc = "S_handle"
    /\ \E threw \in BOOLEAN :
         slash' = [slash EXCEPT
                     !.pc = IF threw /\ slash.commandName \in
                                          {"login", "logout", "despesas"}
                            THEN "S_catch" ELSE "S_reply"]
    /\ UNCHANGED <<bridge, handlers, delivered, boot, mcp>>
    /\ UNCHANGED <<authVars, pipeVars, expVars, repoVars>>

\* await interaction.reply(replyOptions)
SReply ==
    /\ slash.pc = "S_reply"
    /\ \E ok \in BOOLEAN :
         slash' = [Reply(slash,
                         IF slash.commandName \in {"login", "logout", "despesas"}
                         THEN <<slash.commandName>> ELSE UnknownCommand, ok)
                     EXCEPT !.pc = IF ok THEN "done" ELSE "S_catch"]
    /\ UNCHANGED <<bridge, handlers, delivered, boot, mcp>>
    /\ UNCHANGED <<authVars, pipeVars, expVars, repoVars>>

\* the catch block of CommandHandlerService.handleSlashCommand
SCatch ==
    /\ slash.pc = "S_catch"
    /\ \E ok \in BOOLEAN :
         slash' = [Reply(slash, SlashApology, ok)
                     EXCEPT !.pc = IF ok THEN "done" ELSE "S_outer"]
    /\ UNCHANGED <<bridge, handlers, delivered, boot, mcp>>
    /\ UNCHANGED <<authVars, pipeVars, expVars, repoVars>>

\* the catch block of DiscordBotHandlerService.handleSlashCommand
SOuter ==
    /\ slash.pc = "S_outer"
    /\ IF slash.replied
       THEN slash' = [slash EXCEPT !.pc = "done"]
       ELSE \E ok \in BOOLEAN :
              slash' = [Reply(slash, SlashApology, ok)
                          EXCEPT !.pc = IF ok THEN "done" ELSE "escaped"]
    /\ UNCHANGED <<bridge, handlers, delivered, boot, mcp>>
    /\ UNCHANGED <<authVars, pipeVars, expVars, repoVars>>

\* the listener's promise has settled
SReturn ==
    /\ slash.pc \in {"done", "escaped"}
    /\ slash' = NoSlash
    /\ UNCHANGED <<bridge, handlers, delivered, boot, mcp>>
    /\ UNCHANGED <<authVars, pipeVars, expVars, repoVars>>

-----------------------------------------------------------------------------
(* The messageCreate listener: handleMessage calls in progress together *)

\* the direct messages received, numbered in the order of receipt
MaxInFlight == 2
MessageIds == 1..MaxInFlight

NoHandlers == [m \in MessageIds |-> [pc |-> "waiting", author |-> ""]]

\* a listener that takes the next message when no call is in progress
Dispatchable_Serialized(hs, m) ==
    /\ \A k \in 1..(m - 1) : hs[k].pc # "waiting"
    /\ \A k \in MessageIds : hs[k].pc \in {"waiting", "done"}

\* client.on('messageCreate', ...): the client emits the messages in the
\* order of receipt, and the listener is called for each as it is emitted
Dispatchable(hs, m) ==
    \A k \in 1..(m - 1) : hs[k].pc # "waiting"

At(m, to) == [handlers EXCEPT ![m].pc = to]

\* the listener is called for message m: handleMessage runs up to the await
\* of sendTyping
KEmit(m) ==
    /\ handlers[m].pc = "waiting"
    /\ Dispatchable(handlers, m)
    /\ \E author \in {"d1", "d2"} :
         handlers' = [handlers EXCEPT ![m] = [pc |-> "T_typing", author |-> author]]
    /\ UNCHANGED <<bridge, slash, delivered, boot, mcp>>
    /\ UNCHANGED <<authVars, pipeVars, expVars, repoVars>>

\* await sendTyping() of message m settles
KTyping(m) ==
    /\ handlers[m].pc = "T_typing"
    /\ \E ok \in BOOLEAN : handlers' = At(m, IF ok THEN "T_auth" ELSE "T_catch")
    /\ UNCHANGED <<bridge, slash, delivered, boot, mcp>>
    /\ UNCHANGED <<authVars, pipeVars, expVars, repoVars>>

\* await checkAuthAndGetMessage(author) settles
KAuth(m) ==
    /\ handlers[m].pc = "T_auth"
    /\ \E storage \in StorageOutcomes :
         handlers' = At(m, IF NeedsLogin(checkAuthAndGetMessage(handlers[m].author,
                                                                storage))
                           THEN "T_send" ELSE "T_agent")
    /\ UNCHANGED <<bridge, slash, delivered, boot, mcp>>
    /\ UNCHANGED <<authVars, pipeVars, expVars, repoVars>>

\* await processTextMessage(...) settles
KAgent(m) ==
    /\ handlers[m].pc = "T_agent"
    /\ \E outcome \in {Threw, Answer(Text(ReplyLen))} :
         handlers' = At(m, IF processResult(outcome).isSuccess
                           THEN "T_send" ELSE "T_catch")
    /\ UNCHANGED <<bridge, slash, delivered, boot, mcp>>
    /\ UNCHANGED <<authVars, pipeVars, expVars, repoVars>>

\* await sendDirectMessage(...) settles: the reply has reached the author,
\* or the call throws
KSend(m) ==
    /\ handlers[m].pc = "T_send"
    /\ \E ok \in BOOLEAN :
         /\ handlers' = At(m, IF ok THEN "done" ELSE "T_catch")
         /\ delivered' = IF ok THEN Append(delivered, m) ELSE delivered
    /\ UNCHANGED <<bridge, slash, boot, mcp>>
    /\ UNCHANGED <<authVars, pipeVars, expVars, repoVars>>

\* the catch block of handleTextMessage: await message.reply(apology)
KCatch(m) ==
    /\ handlers[m].pc = "T_catch"
    /\ \E ok \in BOOLEAN :
         /\ handlers' = At(m, IF ok THEN "done" ELSE "H_catch")
         /\ delivered' = IF ok THEN Append(delivered, m) ELSE delivered
    /\ UNCHANGED <<bridge, slash, boot, mcp>>
    /\ UNCHANGED <<authVars, pipeVars, expVars, repoVars>>

\* the catch block of handleMessage: its reply is guarded
KHandlerCatch(m) ==
    /\ handlers[m].pc = "H_catch"
    /\ \E ok \in BOOLEAN :
         /\ handlers' = At(m, "done")
         /\ delivered' = IF ok THEN Append(delivered, m) ELSE delivered
    /\ UNCHANGED <<bridge, slash, boot, mcp>>
    /\ UNCHANGED <<authVars, pipeVars, expVars, repoVars>>

\* the await that the call for message m is suspended at settles
KStep(m) ==
    \/ KTyping(m)
    \/ KAuth(m)
    \/ KAgent(m)
    \/ KSend(m)
    \/ KCatch(m)
    \/ KHandlerCatch(m)

-----------------------------------------------------------------------------
(* main(): start-up, and MCPServerManagerService *)

\* the messages handled after the bot has started
MaxHandled == 2

NoBoot == [pc |-> "M_initialize", client |-> FALSE, dbTools |-> {},
           creating |-> "none", handled |-> <<>>]

\* String.prototype.includes
includes(s, sub) ==
    \E i \in 0..(Len(s) - Len(sub)) : SubSeq(s, i + 1, i + Len(sub)) = sub

\* key.split('_', 2)[0]
beforeUnderscore(key) ==
    IF \E i \in DOMAIN key : key[i] = "_"
    THEN SubSeq(key, 1, (CHOOSE i \in DOMAIN key :
                            key[i] = "_" /\ \A j \in 1..(i - 1) : key[j] # "_") - 1)
    ELSE key

\* the server a tool is filed under, by its key
serverType(key) ==
    IF \/ startsWith(key, <<"d","b","_">>)
       \/ includes(key, <<"q","u","e","r","y">>)
       \/ includes(key, <<"s","q","l">>)
    THEN <<"d","b">>
    ELSE beforeUnderscore(key)

\* the keys that end up in organizedTools.dbTools
dbToolsOf(toolsById) == { key \in toolsById : serverType(key) = <<"d","b">> }

\* what getTools() may answer with
ToolSets ==
    { {<<"d","b","_","r","u","n">>, <<"l","i","s","t","_","t","a","b","l","e","s">>},
      {<<"e","x","e","c","_","s","q","l">>},
      {<<"c","h","a","r","t","_","d","r","a","w">>} }

\* await mcpManager.initialize(): initialize calls createAndInitializeClient
\* without awaiting it, so what runs is its part up to the await of
\* getTools(), and an exception of new MCPClient(...) rejects the promise
\* that nobody holds; initialize itself resolves
MInitialize ==
    /\ boot.pc = "M_initialize"
    /\ \E created \in BOOLEAN :
         boot' = [boot EXCEPT !.pc = "M_http",
                              !.client = created,
                              !.creating = IF created THEN "pending" ELSE "rejected"]
    /\ UNCHANGED <<bridge, slash, handlers, delivered, mcp>>
    /\ UNCHANGED <<authVars, pipeVars, expVars, repoVars>>

\* await this.client.getTools() settles: the tools are sorted into dbTools,
\* or the promise of createAndInitializeClient rejects
MGetTools ==
    /\ boot.creating = "pending"
    /\ boot.pc # "exit"
    /\ \/ boot' = [boot EXCEPT !.creating = "rejected"]
       \/ \E toolsById \in ToolSets :
            boot' = [boot EXCEPT !.dbTools = dbToolsOf(toolsById),
                                 !.creating = "resolved"]
    /\ UNCHANGED <<bridge, slash, handlers, delivered, mcp>>
    /\ UNCHANGED <<authVars, pipeVars, expVars, repoVars>>

\* setupHttpRoutes and await httpServer.start(port)
MHttp ==
    /\ boot.pc = "M_http"
    /\ \E ok \in BOOLEAN : boot' = [boot EXCEPT !.pc = IF ok THEN "M_bot" ELSE "exit"]
    /\ UNCHANGED <<bridge, slash, handlers, delivered, mcp>>
    /\ UNCHANGED <<authVars, pipeVars, expVars, repoVars>>

\* await discordBotHandler.initialize()
MBot ==
    /\ boot.pc = "M_bot"
    /\ \E ok \in BOOLEAN : boot' = [boot EXCEPT !.pc = IF ok THEN "M_start" ELSE "exit"]
    /\ UNCHANGED <<bridge, slash, handlers, delivered, mcp>>
    /\ UNCHANGED <<authVars, pipeVars, expVars, repoVars>>

\* await discordBotHandler.start()
MStart ==
    /\ boot.pc = "M_start"
    /\ \E ok \in BOOLEAN : boot' = [boot EXCEPT !.pc = IF ok THEN "running" ELSE "exit"]
    /\ UNCHANGED <<bridge, slash, handlers, delivered, mcp>>
    /\ UNCHANGED <<authVars, pipeVars, expVars, repoVars>>

\* the bot handles a message: whether createAndInitializeClient has come
\* to its end by then
MMessage ==
    /\ boot.pc = "running"
    /\ Len(boot.handled) < MaxHandled
    /\ boot' = [boot EXCEPT !.handled = Append(@, boot.creating)]
    /\ UNCHANGED <<bridge, slash, handlers, delivered, mcp>>
    /\ UNCHANGED <<authVars, pipeVars, expVars, repoVars>>

\* the rejection that nobody handles ends the process, when the runtime is
\* set to do so
MUnhandledRejection ==
    /\ boot.creating = "rejected"
    /\ boot.pc # "exit"
    /\ boot' = [boot EXCEPT !.pc = "exit"]
    /\ UNCHANGED <<bridge, slash, handlers, delivered, mcp>>
    /\ UNCHANGED <<authVars, pipeVars, expVars, repoVars>>

-----------------------------------------------------------------------------
(* MCPServerManager: the singleton *)

\* the callers of getInstance() and the instances constructed
MaxCallers == 2
MaxInstances == 2
Callers == 1..MaxCallers

\* new MCPServerManager()
NewManager == [client |-> FALSE, dbTools |-> FALSE, initialized |-> FALSE,
               initializationError |-> FALSE]

NoCaller == [pc |-> "idle", object |-> 0, ready |-> FALSE]

\* instance 0 is null
NoMcp == [instance |-> 0, objects |-> <<>>, callers |-> [c \in Callers |-> NoCaller]]

\* an isReady that looks at the error only
isReady_ErrorOnly(manager) == ~manager.initializationError

\* isReady()
isReady(manager) == manager.initialized /\ ~manager.initializationError

\* getInstance() up to its first await. With an instance in the static field
\* it returns that instance; without one it constructs one, stores it and
\* calls initialize(), which runs to the await of getTools(), or, when
\* new MCPClient(...) throws, to the await of cleanup()
GCall(c) ==
    /\ mcp.callers[c].pc = "idle"
    /\ IF mcp.instance # 0
       THEN mcp' = [mcp EXCEPT
                      !.callers[c] = [pc |-> "returned", object |-> mcp.instance,
                                      ready |-> isReady(mcp.objects[mcp.instance])]]
       ELSE /\ Len(mcp.objects) < MaxInstances
            /\ \E created \in BOOLEAN :
                 LET id == Len(mcp.objects) + 1 IN
                 mcp' = [mcp EXCEPT
                           !.instance = id,
                           !.objects = Append(@, [NewManager EXCEPT !.client = created]),
                           !.callers[c] = [pc |-> IF created THEN "G_getTools"
                                                  ELSE "G_cleanup",
                                           object |-> id, ready |-> FALSE]]
    /\ UNCHANGED <<bridge, slash, handlers, delivered, boot>>
    /\ UNCHANGED <<authVars, pipeVars, expVars, repoVars>>

\* await this.client.getTools() settles. When it resolves, initialize sets
\* initialized and getInstance returns the static field; when it rejects,
\* initialize goes to the await of cleanup()
GGetTools(c) ==
    /\ mcp.callers[c].pc = "G_getTools"
    /\ LET id == mcp.callers[c].object IN
       \E ok \in BOOLEAN :
         mcp' = IF ok
                THEN LET manager == [mcp.objects[id] EXCEPT !.dbTools = TRUE,
                                                           !.initialized = TRUE]
                     IN  [mcp EXCEPT
                            !.objects[id] = manager,
                            !.callers[c] = [pc |-> "returned", object |-> mcp.instance,
                                            ready |-> IF mcp.instance = id
                                                      THEN isReady(manager)
                                                      ELSE mcp.instance # 0 /\
                                                           isReady(mcp.objects[mcp.instance])]]
                ELSE [mcp EXCEPT !.callers[c].pc = "G_cleanup"]
    /\ UNCHANGED <<bridge, slash, handlers, delivered, boot>>
    /\ UNCHANGED <<authVars, pipeVars, expVars, repoVars>>

\* await this.cleanup() settles: with a client, after disconnect() the
\* fields are reset, and when disconnect() rejects they are left; then
\* initialize sets initializationError and throws, and getInstance sets the
\* static field to null and throws
GCleanup(c) ==
    /\ mcp.callers[c].pc = "G_cleanup"
    /\ LET id == mcp.callers[c].object IN
       \E disconnected \in BOOLEAN :
         LET manager == IF disconnected \/ ~mcp.objects[id].client
                        THEN NewManager ELSE mcp.objects[id]
         IN  mcp' = [mcp EXCEPT
                       !.instance = 0,
                       !.objects[id] = [manager EXCEPT !.initializationError = TRUE],
                       !.callers[c].pc = "thrown"]
    /\ UNCHANGED <<bridge, slash, handlers, delivered, boot>>
    /\ UNCHANGED <<authVars, pipeVars, expVars, repoVars>>

\* the caller is done with what getInstance() gave it
GSettled(c) ==
    /\ mcp.callers[c].pc \in {"returned", "thrown"}
    /\ mcp' = [mcp EXCEPT !.callers[c] = NoCaller]
    /\ UNCHANGED <<bridge, slash, handlers, delivered, boot>>
    /\ UNCHANGED <<authVars, pipeVars, expVars, repoVars>>

-----------------------------------------------------------------------------
(* Specifications *)

InitAccounts ==
    { [accountId |-> "d1", providerId |-> "discord", userId |-> "u1"],
      [accountId |-> "d2", providerId |-> "github",  userId |-> "u2"] }

InitUsers ==
    { [id |-> "u1", name |-> <<"A","n","a">>],
      [id |-> "u2", name |-> <<"B","o","b">>] }

Init ==
    /\ accounts = InitAccounts
    /\ users = InitUsers
    /\ msg = NoMsg
    /\ pc = "idle"
    /\ authCheck = NoAuth
    /\ audioResult = NoAudio
    /\ send = NoSend
    /\ log = <<>>
    /\ caught = <<>>
    /\ routed = NoInput
    /\ result = NoResult
    /\ expenses \in {{}, {SeedExpense}}
    /\ clock = 0
    /\ ucResult = NoCall
    /\ records = {}
    /\ repoResult = NoRepoCall
    /\ bridge = NoBridge
    /\ slash = NoSlash
    /\ handlers = NoHandlers
    /\ delivered = <<>>
    /\ boot = NoBoot
    /\ mcp = NoMcp

\* the message pipeline
Next ==
    \/ \E m \in Messages : Receive(m)
    \/ Return
    \/ HCatch
    \/ CHandle
    \/ CReply
    \/ TTyping
    \/ TAuth
    \/ TAgent
    \/ TCatch
    \/ ATyping
    \/ AReact
    \/ AAuth
    \/ ATranscribe
    \/ AErrReply
    \/ AErrReact
    \/ AAgent
    \/ AOkReact
    \/ ACatch
    \/ ACatchReact
    \/ SendDm
    \/ SendReply

Spec == Init /\ [][Next]_vars

\* sendDirectMessage on its own
NextSend ==
    \/ \E n \in SendLengths : SendCall(n)
    \/ SendDm
    \/ SendReply
    \/ SendSettled

SpecSend == Init /\ [][NextSend]_vars

\* the expense use case
NextExpense ==
    \/ Tick
    \/ CreateExpense
    \/ GetExpense
    \/ GetUserExpenses
    \/ UpdateExpense
    \/ DeleteExpense

SpecExpense == Init /\ [][NextExpense]_vars

\* the writes of the generic repository over records, and the models
NextRepo ==
    \/ Tick
    \/ RCreate
    \/ RUpdate
    \/ RSoftDelete
    \/ ModelUpdate

\* the reads of the generic repository, of tables built by create and
\* softDelete
NextFind ==
    \/ Tick
    \/ RCreate
    \/ RSoftDelete
    \/ RFindAll
    \/ RFindWithPagination
    \/ RFindByUserId

\* the table of expenses holds its row from the start
InitRepo == Init /\ expenses = {SeedExpense}

SpecRepo == InitRepo /\ [][NextRepo]_vars

SpecFind == InitRepo /\ [][NextFind]_vars

\* the /api/auth/* route
NextBridge ==
    \/ BRequest
    \/ BHandler
    \/ BBody
    \/ BCatch
    \/ BReturn

SpecBridge == Init /\ [][NextBridge]_vars

\* the interactionCreate listener
NextSlash ==
    \/ SInteraction
    \/ SHandle
    \/ SReply
    \/ SCatch
    \/ SOuter
    \/ SReturn

SpecSlash == Init /\ [][NextSlash]_vars

\* the messageCreate listener with several messages
NextHandlers ==
    \/ \E m \in MessageIds : KEmit(m)
    \/ \E m \in MessageIds : KTyping(m)
    \/ \E m \in MessageIds : KAuth(m)
    \/ \E m \in MessageIds : KAgent(m)
    \/ \E m \in MessageIds : KSend(m)
    \/ \E m \in MessageIds : KCatch(m)
    \/ \E m \in MessageIds : KHandlerCatch(m)

SpecHandlers == Init /\ [][NextHandlers]_vars

\* start-up
NextBoot ==
    \/ MInitialize
    \/ MGetTools
    \/ MHttp
    \/ MBot
    \/ MStart
    \/ MMessage
    \/ MUnhandledRejection

SpecBoot == Init /\ [][NextBoot]_vars

\* the callers of MCPServerManager.getInstance()
NextMcp ==
    \/ \E c \in Callers : GCall(c)
    \/ \E c \in Callers : GGetTools(c)
    \/ \E c \in Callers : GCleanup(c)
    \/ \E c \in Callers : GSettled(c)

SpecMcp == Init /\ [][NextMcp]_vars

-----------------------------------------------------------------------------
(* Properties of the message pipeline *)

\* positions in the log of the external calls of one kind
Calls(op) == { i \in DOMAIN log : log[i].op = op }

\* the use case was handed the message (text or audio branch)
InUseCase == routed.kind \in {"text", "audio"}

\* a successful send or reply that carries the text to the author: the
\* direct message itself, or the channel reply with its notice
Delivered(text) ==
    \E k \in DOMAIN log :
        /\ log[k].ok
        /\ \/ log[k].op = "send" /\ log[k].arg = text
           \/ log[k].op = "reply" /\ log[k].arg = DmFailedNotice \o text

\* every agent call follows an auth check of the author that answered
\* isAuthenticated = true, and its system context is that answer's userId
\* and userName
AgentGate ==
    \A i \in Calls("agent") :
        /\ \E j \in Calls("auth") : j < i /\ log[j].arg = msg.author
        /\ authCheck.isAuthenticated
        /\ log[i].arg.system = [userId   |-> authCheck.userId,
                                userName |-> authCheck.userName]

\* after an auth check that answered isAuthenticated = false the agent is
\* not called, the next call is the direct message of text, and when the
\* use case returns without an exception text has reached the author
Unauthenticated(text) ==
    \A j \in Calls("auth") :
        ~authCheck.isAuthenticated =>
            /\ Calls("agent") = {}
            /\ j < Len(log) => log[j + 1].op = "send" /\ log[j + 1].arg = text
            /\ pc = "done" /\ caught = <<>> => Delivered(text)

\* C1, as stated: in the text and audio branches the agent is called only
\* after the auth check of the author answered isAuthenticated = true, with
\* exactly that answer's userId and userName in the system context; after an
\* answer of isAuthenticated = false the login prompt is delivered and the
\* agent is not called.
C1_LoginPromptDelivered ==
    InUseCase => AgentGate /\ Unauthenticated(LoginPrompt)

\* C1, amended: as above, but what is delivered after an answer of
\* isAuthenticated = false is that answer's message: the login prompt when
\* the lookup found no link, the authentication-check-failed message when
\* the lookup itself failed.
C1_AuthMessageDelivered ==
    InUseCase =>
        /\ AgentGate
        /\ Unauthenticated(authCheck.message)
        /\ \A j \in Calls("auth") :
             ~authCheck.isAuthenticated =>
                authCheck.message = IF log[j].ok THEN LoginPrompt
                                    ELSE AuthCheckFailedMessage

\* an authenticated author's audio message whose transcription reached the
\* agent
C1_Witness ==
    /\ routed.kind = "audio"
    /\ authCheck.isAuthenticated
    /\ \E i \in Calls("agent") : log[i].ok
    /\ pc = "done"

Apologies == {TextApology, AudioApology, UnexpectedApology}

\* the external calls whose failure is an exception in the branch: a failed
\* direct message falls back to the channel, a failed lookup or
\* transcription is answered with a message of its own
FailsBranch(i) ==
    /\ ~log[i].ok
    /\ log[i].op \in {"typing", "react", "agent", "reply", "replyOptions"}

ApologyAttempted(i) ==
    \E j \in i..Len(log) : log[j].op = "reply" /\ log[j].arg \in Apologies

\* C2: handleMessage lets no exception out, whatever external calls fail:
\* from every position the handler goes on until its promise resolves, and
\* when it has resolved, every failure of a branch was followed by the
\* attempt of an apology reply (or was that attempt itself).
C2_NoExceptionEscapes ==
    /\ pc # "escaped"
    /\ pc # "idle" => ENABLED Next
    /\ pc = "done" => \A i \in DOMAIN log : FailsBranch(i) => ApologyAttempted(i)

\* the text branch failed, its apology failed, the handler's own apology
\* failed as well, and the promise resolved
C2_Witness ==
    /\ pc = "done"
    /\ caught = <<"handleTextMessage", "handleMessage">>
    /\ log[Len(log)] = Entry("reply", UnexpectedApology, FALSE)


-----------------------------------------------------------------------------
(* Properties of sendDirectMessage called on its own *)

\* a call of sendDirectMessage made on its own is running or has settled
SendCalled == send.ret = "returned"

IsDm(e)    == e.op = "send"
IsReply(e) == e.op = "reply"

\* the texts of log entries, in order
TextsOf(entries) == [i \in DOMAIN entries |-> entries[i].arg]

\* what the channel has been handed so far, joined
Replied == Flatten(TextsOf(SelectSeq(log, IsReply)))

DmFailed == \E i \in Calls("send") : ~log[i].ok

\* the first call is a direct message, and the channel is used only after a
\* direct message failed
DmFirst ==
    /\ log # <<>> => log[1].op = "send"
    /\ \A i \in Calls("reply") : \E j \in Calls("send") : j < i /\ ~log[j].ok

\* C3, as stated: for content of any length the direct message is tried
\* first, and when it fails the content goes to the channel behind the
\* notice that the direct message failed.
C3_FallbackPrefixed ==
    SendCalled =>
        /\ DmFirst
        /\ send.phase = "returned" /\ DmFailed =>
              Replied = DmFailedNotice \o send.content

\* C3, amended: the direct message is tried first, and when it fails the
\* content goes to the channel: behind the notice when it is at most 2000
\* characters long, in its chunks and without the notice when it is longer.
C3_FallbackPrefixedWhenShort ==
    SendCalled =>
        /\ DmFirst
        /\ send.phase = "returned" /\ DmFailed =>
              Replied = IF Len(send.content) > MaxMessageLength
                        THEN send.content
                        ELSE DmFailedNotice \o send.content

\* a short content whose direct message failed and whose channel reply
\* went out
C3_Witness ==
    /\ SendCalled /\ send.phase = "returned"
    /\ Len(send.content) = MaxMessageLength
    /\ log = <<Entry("send", send.content, FALSE),
               Entry("reply", DmFailedNotice \o send.content, TRUE)>>

\* the calls that carried a text to the author
Deliveries(text) == { i \in DOMAIN log : log[i].ok /\ log[i].arg = text }

\* C4: for content longer than 2000 characters, a chunk goes to the channel
\* only if its own direct message failed, and once sendDirectMessage has
\* returned every chunk has reached the author exactly once.
C4_ChunkwiseFallback ==
    SendCalled /\ Len(send.content) > MaxMessageLength =>
        /\ \A i \in Calls("reply") :
              \E j \in Calls("send") :
                  j < i /\ ~log[j].ok /\ log[j].arg = log[i].arg
        /\ send.phase = "returned" =>
              \A k \in DOMAIN Chunks(send.content) :
                  Cardinality(Deliveries(Chunks(send.content)[k])) = 1

\* C5: for content longer than 2000 characters every text handed to a send
\* is at most 2000 characters long, and when every send succeeded the texts
\* sent by direct message, joined in the order sent, are the content.
C5_ChunksInOrder ==
    SendCalled /\ Len(send.content) > MaxMessageLength =>
        /\ \A i \in DOMAIN log : Len(log[i].arg) \in 1..MaxMessageLength
        /\ send.phase = "returned" /\ (\A i \in DOMAIN log : log[i].ok) =>
              /\ \A i \in DOMAIN log : log[i].op = "send"
              /\ Flatten(TextsOf(log)) = send.content

\* a content of two full chunks and one character, all three sends
\* succeeding
C5_Witness ==
    /\ SendCalled /\ send.phase = "returned"
    /\ Len(send.content) = 2 * MaxMessageLength + 1
    /\ Len(log) = 3
    /\ \A i \in DOMAIN log : log[i].ok


-----------------------------------------------------------------------------
(* Properties of routing and of the auth check *)

AudioSuffixes ==
    { <<".","m","p","3">>, <<".","w","a","v">>, <<".","o","g","g">>,
      <<".","m","4","a">>, <<".","a","a","c">>, <<".","o","p","u","s">>,
      <<".","w","e","b","m">> }

\* the name ends in one of the audio suffixes, letter case aside
EndsInAudioSuffix(name) ==
    \E x \in AudioSuffixes :
        /\ Len(name) >= Len(x)
        /\ \A k \in DOMAIN x :
              ToLowerChar(name[Len(name) - Len(x) + k]) = x[k]

TextPcs    == {"T_typing", "T_auth", "T_agent", "T_catch"}
AudioPcs   == {"A_typing", "A_react", "A_auth", "A_transcribe", "A_errReply",
               "A_errReact", "A_agent", "A_okReact", "A_catch", "A_catchReact"}
CommandPcs == {"C_handle", "C_reply"}

Dropped == msg.bot \/ msg.guild

\* C6: a message that is not dropped takes exactly one branch: the audio
\* branch, once and for the first attachment whose name ends in an audio
\* suffix, if there is such an attachment, whatever the text; else the
\* command branch, without a call of the agent, if the trimmed content starts
\* with / or !; else the text branch if the trimmed content is not empty;
\* else nothing happens.
C6_RoutingPriority ==
    pc # "idle" /\ ~Dropped =>
        LET audio == { k \in DOMAIN msg.attachments :
                         EndsInAudioSuffix(msg.attachments[k].name) }
            first == CHOOSE k \in audio : \A j \in audio : k <= j
            text  == trim(msg.content)
        IN  IF audio # {}
            THEN /\ routed = [kind |-> "audio", audioUrl |-> msg.attachments[first].url]
                 /\ pc \notin TextPcs \cup CommandPcs
                 /\ Cardinality(Calls("transcribe")) <= 1
                 /\ \A i \in Calls("transcribe") : log[i].arg = msg.attachments[first].url
                 /\ Calls("replyOptions") = {}
                 /\ \A k \in DOMAIN caught : caught[k] # "handleTextMessage"
            ELSE IF text # <<>> /\ text[1] \in {"/", "!"}
            THEN /\ routed.kind = "command"
                 /\ pc \notin TextPcs \cup AudioPcs \cup {"send"}
                 /\ Calls("agent") = {} /\ Calls("transcribe") = {}
            ELSE IF text # <<>>
            THEN /\ routed = [kind |-> "text", content |-> text]
                 /\ pc \notin AudioPcs \cup CommandPcs
                 /\ Calls("transcribe") = {} /\ Calls("replyOptions") = {}
            ELSE /\ routed = NoInput
                 /\ pc = "done" /\ log = <<>>

\* a message whose text is a command and whose third attachment is the
\* first audio file went through the audio branch to the agent
C6_Witness ==
    /\ pc = "done" /\ ~Dropped
    /\ msg.content = <<"/","l","o","g","i","n">>
    /\ Len(msg.attachments) = 4
    /\ routed = [kind |-> "audio", audioUrl |-> 3]
    /\ Calls("agent") # {}

\* C7: for a message of a bot or from a guild channel nothing is done: no
\* lookup, transcription, agent call, reaction, reply or direct message.
C7_DroppedSilently ==
    pc # "idle" /\ Dropped =>
        /\ pc = "done"
        /\ log = <<>> /\ caught = <<>>
        /\ routed = NoInput /\ send = NoSend
        /\ authCheck = NoAuth /\ audioResult = NoAudio /\ result = NoResult

\* a guild message of a linked user with an audio attachment was handled
C7_Witness ==
    /\ pc = "done"
    /\ msg.guild /\ ~msg.bot /\ msg.author = "d1"
    /\ msg.attachments = Attachments(<<nameMp3>>)

\* t occurs in s
Contains(s, t) ==
    \E i \in 0..(Len(s) - Len(t)) : SubSeq(s, i + 1, i + Len(t)) = t

-----------------------------------------------------------------------------
(* Properties of the ExpenseUseCase *)

Operations ==
    {"createExpense", "getExpense", "getUserExpenses", "updateExpense",
     "deleteExpense"}

\* the fixed message of each operation's catch block
GenericMessage(op) ==
    CASE op = "createExpense"   -> "Failed to create expense"
      [] op = "getExpense"      -> "Failed to get expense"
      [] op = "getUserExpenses" -> "Failed to get expenses"
      [] op = "updateExpense"   -> "Failed to update expense"
      [] op = "deleteExpense"   -> "Failed to delete expense"

\* the last call returned an envelope
ReturnsEnvelope ==
    /\ ucResult.out.kind = "return"
    /\ ucResult.out.value.success \in BOOLEAN

\* the last call answered the failure it met with the message text
AnswersFailureWith(text) ==
    /\ ~ucResult.out.value.success
    /\ ucResult.out.value.error = text

\* C9, as stated: every operation returns an envelope whatever the auth
\* service and the repository do; the error of the envelope is the message
\* of the AppError when one was thrown, and the generic message of the
\* operation called when anything else was thrown.
C9_GenericMessageOfOperation ==
    ucResult.op \in Operations =>
        /\ ReturnsEnvelope
        /\ ucResult.failure.type = "AppError" =>
              AnswersFailureWith(ucResult.failure.message)
        /\ ucResult.failure.type \notin {"none", "AppError"} =>
              AnswersFailureWith(GenericMessage(ucResult.op))

\* C9, amended: as above, but the generic message is that of the method
\* whose catch block took the exception: the operation called, or getExpense
\* when the lookup that updateExpense starts with failed.
C9_GenericMessageOfCatchBlock ==
    ucResult.op \in Operations =>
        /\ ReturnsEnvelope
        /\ ucResult.failure.type = "AppError" =>
              AnswersFailureWith(ucResult.failure.message)
        /\ ucResult.failure.type \notin {"none", "AppError"} =>
              /\ AnswersFailureWith(GenericMessage(ucResult.caughtBy))
              /\ ucResult.caughtBy \in
                    IF ucResult.op = "updateExpense"
                    THEN {"updateExpense", "getExpense"}
                    ELSE {ucResult.op}
        /\ ucResult.failure.type = "none" => ucResult.caughtBy = ""

\* createExpense for a user the auth service does not know answered with the
\* message of the AppError
C9_Witness ==
    /\ ucResult.op = "createExpense"
    /\ ucResult.userId = "u9"
    /\ ucResult.failure.type = "AppError"
    /\ ucResult.out = Ret(Fail("User not found"))

\* the value of a field after an update with input in
Merged(in, old, field) == IF in[field].has THEN in[field].v ELSE old[field]

\* C10: updateExpense on an expense that is stored, the storage answering,
\* leaves the row with the input's value in every field the input has and
\* the stored value in every other field, and returns that row as data.
C10_MergedSnapshotPersisted ==
    /\ ucResult.op = "updateExpense"
    /\ RowsWithId(ucResult.before, ucResult.expenseId) # {}
    /\ ucResult.failure # StorageError
    => LET old == CHOOSE r \in ucResult.before : r.id = ucResult.expenseId
           in  == ucResult.input
       IN  /\ ucResult.out.kind = "return"
           /\ ucResult.out.value.success
           /\ \E new \in RowsWithId(expenses, ucResult.expenseId) :
                /\ new.description = Merged(in, old, "description")
                /\ new.amount = Merged(in, old, "amount")
                /\ new.category = Merged(in, old, "category")
                /\ \A f \in {"id", "date", "isRecurring", "userId", "createdAt"} :
                      new[f] = old[f]
                /\ ucResult.out.value.data = new


\* C11: createExpense for a userId that no stored user has returns a failure
\* envelope whose error is not empty, and the expenses table is as it was
\* before the call.
C11_UnknownUserCreatesNothing ==
    /\ ucResult.op = "createExpense"
    /\ \A u \in users : u.id # ucResult.userId
    => /\ ucResult.out.kind = "return"
       /\ ~ucResult.out.value.success
       /\ ucResult.out.value.error # ""
       /\ expenses = ucResult.before

\* createExpense for the unknown user u9 with a well-formed input, on a table
\* that holds a row, the users query answering
C11_Witness ==
    /\ ucResult.op = "createExpense"
    /\ ucResult.userId = "u9"
    /\ ucResult.input.category = "essentials"
    /\ ucResult.failure.type = "AppError"
    /\ ucResult.before = {SeedExpense}
    /\ expenses = {SeedExpense}


\* categorySchema: the fixed enumeration of expense categories
Categories == {"essentials", "leisure", "investments", "knowledge", "emergency"}

\* C12: after any calls of createExpense and updateExpense, every stored
\* expense has a category of the enumeration and a userId that exactly one
\* stored user has.
C12_StoredExpensesWellFormed ==
    \A e \in expenses :
        /\ e.category \in Categories
        /\ Cardinality({ u \in users : u.id = e.userId }) = 1


\* C13: deleteExpense, the delete statement executing, returns
\* {success: true} for every userId, owner of the expense or not, and whether
\* or not a row has the expenseId; afterwards no row has the expenseId and
\* every other row is as it was.
C13_HardDeleteWithoutOwnership ==
    ucResult.op = "deleteExpense" /\ ucResult.failure # StorageError =>
        /\ ucResult.out = Ret(OkVoid)
        /\ RowsWithId(expenses, ucResult.expenseId) = {}
        /\ expenses = ucResult.before \ RowsWithId(ucResult.before, ucResult.expenseId)

\* u2 deleted the expense e1 of u1
C13_Witness ==
    /\ ucResult.op = "deleteExpense"
    /\ ucResult.userId = "u2" /\ ucResult.expenseId = "e1"
    /\ \E e \in ucResult.before : e.id = "e1" /\ e.userId = "u1"
    /\ \E e \in ucResult.before : e.id = "e2"
    /\ ucResult.out = Ret(OkVoid)
    /\ \A e \in expenses : e.id = "e2"


-----------------------------------------------------------------------------
(* Properties of the generic repository and of the models *)

\* the row the last repository call named, as it was before the call
RowBefore == CHOOSE r \in repoResult.before : r.id = repoResult.id

\* C14: update(id, partial) leaves every row but the one with the id as it
\* was, and in that row every field that partial does not have, updatedAt
\* aside: the model it returns and the record fetched again by id carry the
\* values those fields had before.
C14_UpdateFrame ==
    repoResult.op = "update" /\ repoResult.out.kind = "return" =>
        LET untouched == DOMAIN RowBefore \ (FieldsOf(repoResult.data) \cup {"updatedAt"})
            fetched   == RepoFindById(records, repoResult.id, "ok", "records")
        IN  /\ \A r \in repoResult.before : r.id # repoResult.id => r \in records
            /\ Cardinality(records) = Cardinality(repoResult.before)
            /\ fetched.kind = "return"
            /\ \A f \in untouched :
                  /\ fetched.value[f] = RowBefore[f]
                  /\ repoResult.out.value[f] = RowBefore[f]

\* an update of emailVerified on a soft-deleted row with a salary, next to
\* another row
C14_Witness ==
    /\ repoResult.op = "update" /\ repoResult.out.kind = "return"
    /\ repoResult.data = [emailVerified |-> TRUE]
    /\ RowBefore.monthlySalary = 10
    /\ RowBefore.deletedAt # Null
    /\ RowBefore.updatedAt < clock
    /\ Cardinality(records) = 2

\* C15: update and softDelete for an id that no row has fail, with the
\* not-found error unless the statement itself was rejected, and leave the
\* table as it was.
C15_MissingRowNotFound ==
    /\ repoResult.op \in {"update", "softDelete"}
    /\ RowsWithId(repoResult.before, repoResult.id) = {}
    => /\ repoResult.out.kind = "throw"
       /\ repoResult.out.error # StorageError => repoResult.out.error = RecordNotFound
       /\ records = repoResult.before

\* softDelete of r2 on a table that holds r1 alone
C15_Witness ==
    /\ repoResult.op = "softDelete" /\ repoResult.id = "r2"
    /\ repoResult.out = Throw(RecordNotFound)
    /\ \E r \in records : r.id = "r1"

\* C16: a row that softDelete marked stays in the table with deletedAt set,
\* and no result of findAll or findWithPagination holds a record whose
\* deletedAt is set.
C16_SoftDeletedExcluded ==
    /\ repoResult.op = "softDelete" /\ repoResult.out.kind = "return" =>
          \E r \in records : r.id = repoResult.id /\ r.deletedAt # Null
    /\ repoResult.op = "findAll" /\ repoResult.out.kind = "return" =>
          \A i \in DOMAIN repoResult.out.value :
              repoResult.out.value[i].deletedAt = Null
    /\ repoResult.op = "findWithPagination" /\ repoResult.out.kind = "return" =>
          \A i \in DOMAIN repoResult.out.value.data :
              repoResult.out.value.data[i].deletedAt = Null

\* C17: findWithPagination for page >= 1 and limit >= 1 returns as total the
\* number of rows that match the predicate, as totalPages the least number
\* of pages of limit rows that hold them, and as data at most limit records:
\* those at offsets (page-1)*limit .. page*limit-1 of the matching rows in
\* the order asked for.
C17_PaginationArithmetic ==
    repoResult.op = "findWithPagination" /\ repoResult.out.kind = "return" =>
        LET v      == repoResult.out.value
            match  == { r \in repoResult.before : Matches(repoResult.where, r) }
            total  == Cardinality(match)
            limit  == repoResult.limit
            offset == (repoResult.page - 1) * limit
            rest   == IF total > offset THEN total - offset ELSE 0
            count  == IF rest > limit THEN limit ELSE rest
        IN  /\ v.total = total
            /\ v.page = repoResult.page /\ v.limit = limit
            /\ v.totalPages * limit >= total
            /\ (v.totalPages - 1) * limit < total
            /\ Len(v.data) <= limit
            /\ \E s \in [1..total -> match] :
                  /\ \A i, j \in 1..total : i # j => s[i] # s[j]
                  /\ \A i, j \in 1..total : i < j =>
                        IF repoResult.orderDirection = "desc"
                        THEN s[i].createdAt >= s[j].createdAt
                        ELSE s[i].createdAt <= s[j].createdAt
                  /\ v.data = [i \in 1..count |-> s[offset + i]]

\* the second page of one row each, of two rows created at different times
C17_Witness ==
    /\ repoResult.op = "findWithPagination" /\ repoResult.out.kind = "return"
    /\ repoResult.page = 2 /\ repoResult.limit = 1
    /\ repoResult.where = "none" /\ repoResult.orderDirection = "desc"
    /\ repoResult.out.value.total = 2
    /\ repoResult.out.value.totalPages = 2
    /\ Len(repoResult.out.value.data) = 1
    /\ repoResult.out.value.data[1].createdAt = 0
    /\ \E r \in records : r.createdAt = 1


\* C18: findByUserId(userId) without options, the storage answering,
\* returns the expenses whose userId is the argument, all of them and no
\* other, the later created first.
C18_FindByUserIdExact ==
    /\ repoResult.op = "findByUserId"
    /\ repoResult.out # Throw(StorageError)
    => /\ repoResult.out.kind = "return"
       /\ LET v    == repoResult.out.value
              mine == { r \in repoResult.before : r.userId = repoResult.id }
          IN  /\ Len(v) = Cardinality(mine)
              /\ { v[i].id : i \in DOMAIN v } = { r.id : r \in mine }
              /\ \A i, j \in DOMAIN v : i < j => v[i].createdAt >= v[j].createdAt

\* C19: the entity that create returns has an id, a createdAt and an
\* updatedAt, its updatedAt is not before its createdAt, and its deletedAt
\* is absent.
C19_CreatedEntityStamped ==
    repoResult.op = "create" /\ repoResult.out.kind = "return" =>
        LET v == repoResult.out.value IN
        /\ {"id", "createdAt", "updatedAt", "deletedAt"} \subseteq DOMAIN v
        /\ v.id \in RecordIds
        /\ v.createdAt \in 0..clock /\ v.updatedAt \in 0..clock
        /\ v.updatedAt >= v.createdAt
        /\ v.deletedAt = Null
        /\ v \in records

\* a second user created after the clock has advanced
C19_Witness ==
    /\ repoResult.op = "create" /\ repoResult.out.kind = "return"
    /\ repoResult.out.value.id = "r2"
    /\ repoResult.out.value.createdAt = 1
    /\ repoResult.out.value.monthlySalary = 10
    /\ Cardinality(records) = 2

\* C20: update and softDelete of the repository leave the ids of the rows as
\* they were and move no row's updatedAt back; updateAmount, updateCategory,
\* updateDescription, updateSalary and verifyEmail return a model with the
\* id of the one they were called on and an updatedAt not before its.
C20_IdFixedUpdatedAtMonotone ==
    /\ repoResult.op \in {"update", "softDelete"} =>
          /\ { r.id : r \in records } = { r.id : r \in repoResult.before }
          /\ \A r \in repoResult.before : \A n \in records :
                n.id = r.id => n.updatedAt >= r.updatedAt
          /\ repoResult.op = "update" /\ repoResult.out.kind = "return" =>
                /\ repoResult.out.value.id = repoResult.id
                /\ repoResult.out.value.updatedAt >= RowBefore.updatedAt
    /\ repoResult.op \in ModelMethods =>
          /\ repoResult.out.value.id = repoResult.entity.id
          /\ repoResult.out.value.updatedAt >= repoResult.entity.updatedAt

\* updateSalary on a user last written before the clock advanced
C20_Witness ==
    /\ repoResult.op = "updateSalary"
    /\ repoResult.entity.updatedAt = 0
    /\ repoResult.out.value.updatedAt = 1
    /\ repoResult.out.value.monthlySalary = 20
    /\ repoResult.out.value.id = "r1"

-----------------------------------------------------------------------------
(* Properties of the audio branch *)

\* processAudio has answered, and without a transcription
TranscriptionFailed ==
    /\ routed.kind = "audio"
    /\ "pending" \notin DOMAIN audioResult
    /\ ~audioResult.isSuccess

\* transcription is called at most once and the agent only with a text that
\* is not blank; after a transcription without text the agent is not called,
\* the next call is the reply of the text for its outcome, after that reply was accepted the
\* next is the failure reaction, and when the branch returns without an
\* exception both were accepted
FailsClosed(text) ==
    /\ Cardinality(Calls("transcribe")) <= 1
    /\ routed.kind = "audio" =>
          \A i \in Calls("agent") : trim(audioResult.transcription) # <<>>
    /\ TranscriptionFailed =>
          /\ Calls("agent") = {}
          /\ \A i \in Calls("transcribe") :
                /\ i < Len(log) =>
                      log[i + 1].op = "reply" /\ log[i + 1].arg = text[log[i].ok]
                /\ i + 1 < Len(log) /\ log[i + 1].ok =>
                      log[i + 2].op = "react" /\ log[i + 2].arg = "failure"
                /\ pc = "done" /\ caught = <<>> =>
                      log[i + 1].ok /\ log[i + 2].ok

\* the reply by whether transcribe() answered: always the same text
NotUnderstoodAlways == [answered \in BOOLEAN |-> AudioNotUnderstood]

\* the error of processAudio: one text when transcribe() answered without a
\* text, another when it threw
ErrorOfTranscription ==
    [answered \in BOOLEAN |-> IF answered THEN AudioNotUnderstood ELSE AudioFailed]

\* C23, as stated: when the transcription is empty or absent, or the call of
\* the transcriber fails, the could-not-understand-audio reply and the
\* failure reaction follow, the transcription is not called again and the
\* agent is not called.
C23_NotUnderstoodReply == FailsClosed(NotUnderstoodAlways)

\* C23, amended: as above, but the reply after a failed call of the
\* transcriber is the error-while-processing text, and the
\* could-not-understand text follows an empty or absent transcription only.
C23_ErrorReplyOfTranscription == FailsClosed(ErrorOfTranscription)

\* a blank transcription answered with the could-not-understand reply and
\* the failure reaction
C23_Witness ==
    /\ TranscriptionFailed
    /\ pc = "done" /\ caught = <<>>
    /\ \E i \in Calls("transcribe") :
          /\ log[i].ok
          /\ log[i + 1] = Entry("reply", AudioNotUnderstood, TRUE)
          /\ log[i + 2] = Entry("react", "failure", TRUE)

\* every part of content was accepted, as a direct message or as a channel
\* reply, before position i of the log
DeliveredBefore(i, content) ==
    \A k \in DOMAIN DmParts(content) :
        \E j \in 1..(i - 1) :
            /\ log[j].ok
            /\ \/ log[j].op = "send" /\ log[j].arg = DmParts(content)[k]
               \/ log[j].op = "reply" /\ log[j].arg = ReplyParts(content)[k]

IsAudioApology(j) == log[j].op = "reply" /\ log[j].arg = AudioApology

Reacted(reaction) ==
    \E i \in Calls("react") : log[i].arg = reaction /\ log[i].ok

C24_WitnessCatch ==
    /\ routed.kind = "audio" /\ pc = "done"
    /\ caught = <<"handleAudioMessage">>
    /\ \E i \in Calls("react") : log[i].arg = "success" /\ ~log[i].ok
    /\ Reacted("failure")

\* C28: when handleMessage has ended for an audio message whose processing
\* reaction was accepted, exactly one terminal reaction, success or failure,
\* has been accepted for it.
C28_OneTerminalReaction ==
    /\ routed.kind = "audio" /\ pc = "done"
    /\ Reacted("processing")
    => Cardinality({ i \in Calls("react") :
                       log[i].ok /\ log[i].arg \in {"success", "failure"} }) = 1

-----------------------------------------------------------------------------
(* Properties of sendDirectMessage: lengths *)

\* C27: every string handed to message.author.send or message.reply by
\* sendDirectMessage has at most 2000 characters.
C27_WithinMessageLimit ==
    \A i \in DOMAIN log :
        log[i].op \in {"send", "reply"} => Len(log[i].arg) <= MaxMessageLength

-----------------------------------------------------------------------------
(* Properties of the expense use case: createExpense *)

\* C26: createExpense that answers success: false has left the stored
\* expenses as they were, and one that inserted a row answers success: true
\* with that row as data.
C26_CreateAllOrNothing ==
    ucResult.op = "createExpense" =>
        /\ ucResult.out.kind = "return"
        /\ ~ucResult.out.value.success => expenses = ucResult.before
        /\ expenses # ucResult.before =>
              /\ ucResult.out.value.success
              /\ expenses \ ucResult.before = {ucResult.out.value.data}



-----------------------------------------------------------------------------
(* Properties of the /api/auth/* route *)

\* C21: a request that the route is done with got exactly one response,
\* and that response is either the mirror of the OAuth handler's response
\* (its status, the headers that could be set, its body or null) or the
\* fixed 500 response with code AUTH_FAILURE, which carries no header and
\* no content type of the handler's response.
C21_MirrorOrBareFailure ==
    bridge.pc = "done" =>
        /\ Len(bridge.reply.sent) = 1
        /\ LET out == bridge.reply.sent[1] IN
           IF out.status = 500
           THEN /\ out.payload = AuthFailure
                /\ out.headers = {}
                /\ out.type = ""
           ELSE /\ bridge.response # Undefined
                /\ out.status = bridge.response.status
                /\ out.headers = bridge.response.headers \ bridge.dropped
                /\ out.payload = IF bridge.response.body THEN "body" ELSE "null"

-----------------------------------------------------------------------------
(* Properties of the interactionCreate listener *)

\* C22: whatever the command and whatever fails, a failing
\* interaction.reply included, no exception leaves handleSlashCommand, and
\* the interaction gets at most one reply that succeeds.
C22_SlashNeverEscapes ==
    /\ slash.pc # "escaped"
    /\ Cardinality({ i \in DOMAIN slash.replies : slash.replies[i].ok }) <= 1

-----------------------------------------------------------------------------
(* Properties of the messageCreate listener *)

\* a call of handleMessage that has begun and has not come to its end
InProgress(m) == handlers[m].pc \notin {"waiting", "done"}

\* C25: message handling is not serialized. The next message received is
\* taken up whatever the calls in progress are at, of the same author or
\* of another, and every call in progress goes on whatever the others are
\* at; replies are delivered in the order the calls come to their send,
\* each message once at most.
C25_NotSerialized ==
    /\ \A m \in MessageIds :
         (handlers[m].pc = "waiting" /\ \A k \in 1..(m - 1) : handlers[k].pc # "waiting")
             => ENABLED KEmit(m)
    /\ \A m \in MessageIds : InProgress(m) => ENABLED KStep(m)
    /\ \A i, j \in DOMAIN delivered : delivered[i] = delivered[j] => i = j
    /\ \A i \in DOMAIN delivered : handlers[delivered[i]].pc = "done"

\* m1 and m2 of one author: the reply to m2 is delivered, and the call for
\* m1, begun before, still waits for its own reply to be sent
C25_Witness ==
    /\ handlers[1].author = handlers[2].author
    /\ handlers[1].pc = "T_send"
    /\ handlers[2].pc = "done"
    /\ delivered = <<2>>

-----------------------------------------------------------------------------
(* Properties of start-up *)

\* C29: once initialize() of MCPServerManagerService has resolved, the
\* client is created and the db tools are loaded, and every message the
\* bot handles is handled with the tools loaded.
C29_ToolsBeforeMessages ==
    /\ boot.pc # "M_initialize" => (boot.client /\ boot.creating = "resolved")
    /\ \A i \in DOMAIN boot.handled : boot.handled[i] = "resolved"

-----------------------------------------------------------------------------
(* Properties of the MCPServerManager singleton *)

\* C30: every instance that getInstance() returns is ready when it is
\* returned, also to a caller that comes while the first initialization
\* is in progress, and at most one initialization is in progress.
C30_ReturnedInstanceReady ==
    /\ \A c \in Callers : mcp.callers[c].pc = "returned" => mcp.callers[c].ready
    /\ Cardinality({ c \in Callers :
                       mcp.callers[c].pc \in {"G_getTools", "G_cleanup"} }) <= 1

====
